---- MODULE Spec2Model ----
(***************************************************************************)
(* Catalog transformation + caching pipeline of the per-diem backend:      *)
(* the pagination aggregator, the cache providers, the catalog             *)
(* transformer, the three query routes and the invalidation webhook.       *)
(*                                                                         *)
(* Three specifications share this module:                                 *)
(*   SpecAgg    one run of aggregateSquarePages against a scripted fetcher *)
(*   SpecCache  set/get/clear on a memory or a Redis cache provider        *)
(*   Spec       the routes and the webhook over cache and upstream         *)
(***************************************************************************)
EXTENDS Integers, Sequences, FiniteSets, TLC

VARIABLES
    script,     \* SpecAgg: the behaviour of the fetcher handed to the aggregator
    agg,        \* SpecAgg: locals of the running aggregateSquarePages call
    aggCalls,   \* SpecAgg: the cursor argument of every fetcher call, in order
    provider,   \* config.CACHE_PROVIDER: which CacheProvider createCacheProvider built
    store,      \* the provider's backing store (NodeCache data / Redis keyspace)
    lastSet,    \* SpecCache: per key, the most recent set still in force and its age
    ret,        \* SpecCache: the provider call that just returned, and its result
    clr,        \* SpecCache: the clear(prefix) call in progress (Redis: its SCAN loop)
    upstream,   \* Spec: the version of the catalog the commerce API serves
    req,        \* Spec: the query request being handled, and where its handler stands
    hook,       \* Spec: the webhook request being handled, and where its handler stands
    redisUp,    \* SpecOutage: whether the Redis server answers commands
    req2,       \* SpecRace: a second query request handled at the same time
    xform,      \* SpecXform: the transformer's inputs and the outputs computed so far
    errs        \* SpecError: errors handed to errorHandler and its responses

aggVars   == <<script, agg, aggCalls>>
cacheVars == <<provider, store, lastSet, ret, clr>>
svcVars   == <<upstream, req, hook, redisUp, req2, xform, errs>>
vars      == <<aggVars, cacheVars, svcVars>>

(***************************************************************************)
(* JavaScript values                                                       *)
(***************************************************************************)

\* `undefined` for a string-typed variable or property.
Undefined == "<undefined>"

\* An optional property of an object: a record that may lack the field.
HasField(obj, f) == f \in DOMAIN obj

\* obj.f for an optional string property (undefined when absent).
GetStr(obj, f) == IF HasField(obj, f) THEN obj[f] ELSE Undefined

\* An object without properties.
EmptyObject == [x \in {} |-> x]

\* Truthiness of a string | undefined, as in `while (cursor)`, `if (!prefix)`.
Truthy(s) == s # Undefined /\ s # ""

(***************************************************************************)
(* Pagination aggregator                    utils/pagination.ts            *)
(***************************************************************************)

MAX_PAGES == 10

\* const allObjects = []; let cursor; let pageNumber = 1;
AggStart ==
    [ allObjects |-> <<>>,
      cursor     |-> Undefined,
      pageNumber |-> 1,
      outcome    |-> [kind |-> "running"] ]

AggRunning(st) == st.outcome.kind = "running"

\* A variant of AggOnResult to compare against: without the page ceiling.
AggOnResult_NoCeiling(st, result) ==
    LET objects == IF HasField(result, "objects") THEN result.objects ELSE <<>>
        all     == st.allObjects \o objects
        cur     == GetStr(result, "cursor")
    IN  [ allObjects |-> all,
          cursor     |-> cur,
          pageNumber |-> st.pageNumber + 1,
          outcome    |-> IF Truthy(cur) THEN [kind |-> "running"]
                         ELSE [kind |-> "return", value |-> all] ]

\* A variant of AggOnResult to compare against: assigns the page to allObjects instead of pushing it.
AggOnResult_Overwrites(st, result) ==
    LET objects == IF HasField(result, "objects") THEN result.objects ELSE <<>>
        all     == objects
        cur     == GetStr(result, "cursor")
        pn      == st.pageNumber + 1
    IN  [ allObjects |-> all,
          cursor     |-> cur,
          pageNumber |-> pn,
          outcome    |-> IF pn > MAX_PAGES \/ ~Truthy(cur)
                         THEN [kind |-> "return", value |-> all]
                         ELSE [kind |-> "running"] ]

\* A variant of AggOnResult to compare against: once a cursor is held, it is
\* not replaced by the cursor of a later response.
AggOnResult_KeepsCursor(st, result) ==
    LET objects == IF HasField(result, "objects") THEN result.objects ELSE <<>>
        all     == st.allObjects \o objects
        cur     == IF Truthy(st.cursor) /\ Truthy(GetStr(result, "cursor")) THEN st.cursor
                   ELSE GetStr(result, "cursor")
        pn      == st.pageNumber + 1
    IN  [ allObjects |-> all,
          cursor     |-> cur,
          pageNumber |-> pn,
          outcome    |-> IF pn > MAX_PAGES
                         THEN [kind |-> "return", value |-> all]
                         ELSE IF Truthy(cur)
                              THEN [kind |-> "running"]
                              ELSE [kind |-> "return", value |-> all] ]

\* The loop body after `await fetcher(cursor)` resolved with `result`, up to
\* the next fetcher call or to `return allObjects`.
AggOnResult(st, result) ==
    LET objects == IF HasField(result, "objects") THEN result.objects ELSE <<>>
        all     == st.allObjects \o objects
        cur     == GetStr(result, "cursor")
        pn      == st.pageNumber + 1
    IN  [ allObjects |-> all,
          cursor     |-> cur,
          pageNumber |-> pn,
          outcome    |-> IF pn > MAX_PAGES
                         THEN [kind |-> "return", value |-> all]     \* break
                         ELSE IF Truthy(cur)
                              THEN [kind |-> "running"]              \* while (cursor)
                              ELSE [kind |-> "return", value |-> all] ]

\* A variant of AggOnThrow to compare against: returns the accumulator instead of rethrowing.
AggOnThrow_ReturnsPartial(st, error) ==
    [st EXCEPT !.outcome = [kind |-> "return", value |-> st.allObjects]]

\* catch (error) { console.error(...); throw error; }
AggOnThrow(st, error) ==
    [st EXCEPT !.outcome = [kind |-> "throw", error |-> error]]

(***************************************************************************)
(* Cache providers                          services/cache.service.ts      *)
(*                                                                         *)
(* Keys and prefixes are strings, written as sequences of characters.      *)
(* A store maps each live key to [value, left]: what the backend holds     *)
(* and the seconds left before the backend expires it.                     *)
(***************************************************************************)

\* JavaScript `null`.
JsNull == [js |-> "null"]

\* k.startsWith(p)
StartsWith(k, p) == Len(p) <= Len(k) /\ SubSeq(k, 1, Len(p)) = p

\* An object as JSON.stringify writes it: the text names the properties that
\* hold a value; a property holding undefined is not written. `optional` names
\* the properties whose type admits undefined.
DropUndefined(obj, optional) ==
    [f \in {g \in DOMAIN obj : IF g \in optional THEN obj[g] # Undefined ELSE TRUE}
        |-> obj[f]]

\* MenuItem, CategoryGroup | Category, Location (shared-types)
JsonMenuItem(m) == DropUndefined(m, {"description", "image_url"})

JsonCategory(c) ==
    IF HasField(c, "items")
    THEN [c EXCEPT !.items = [i \in DOMAIN c.items |-> JsonMenuItem(c.items[i])]]
    ELSE c

JsonLocation(l) ==
    [l EXCEPT !.address = DropUndefined(l.address,
        {"address_line_1", "locality", "administrative_district_level_1", "postal_code"})]

\* The JSON value of a response object ({categories}, {locations}) or of a
\* flat object with string properties.
JsonValue(v) ==
    IF HasField(v, "categories")
    THEN [categories |-> [i \in DOMAIN v.categories |-> JsonCategory(v.categories[i])]]
    ELSE IF HasField(v, "locations")
    THEN [locations |-> [i \in DOMAIN v.locations |-> JsonLocation(v.locations[i])]]
    ELSE DropUndefined(v, DOMAIN v)

\* JSON.stringify(v)
JsonStringify(v) == [json |-> JsonValue(v)]

\* JSON.parse(raw)
JsonParse(raw) == raw.json

\* Deep equality of two JSON-serialisable objects (a property holding
\* undefined counts as absent, as in the tests' toEqual).
DeepEqual(a, b) == JsonStringify(a) = JsonStringify(b)

\* A store without key k / restricted to the keys in ks.
Without(st, ks) == [k \in DOMAIN st \ ks |-> st[k]]

\* A store with key k bound to entry e.
WithEntry(st, k, e) == [x \in DOMAIN st \cup {k} |-> IF x = k THEN e ELSE st[x]]

\* --- MemoryCacheProvider -------------------------------------------------

\* this.cache.get<T>(key); return value === undefined ? null : value
MemGet(st, k) == IF k \in DOMAIN st THEN st[k].value ELSE JsNull

\* A variant of MemSet to compare against: an overwrite keeps the old expiry.
MemSet_KeepsExpiry(st, k, v, ttl) ==
    WithEntry(st, k, [value |-> v, left |-> IF k \in DOMAIN st THEN st[k].left ELSE ttl])

\* this.cache.set(key, value, ttlSeconds)   (useClones: the value is copied)
MemSet(st, k, v, ttl) == WithEntry(st, k, [value |-> v, left |-> ttl])

\* this.cache.del(key) > 0
MemDelete(st, k) == [store |-> Without(st, {k}), result |-> k \in DOMAIN st]

\* this.cache.has(key)
MemHas(st, k) == k \in DOMAIN st

\* An optional string argument: absent, or the string s.
NoArg == [given |-> FALSE]
Arg(s) == [given |-> TRUE, s |-> s]

\* !prefix: the argument is absent or the empty string.
Falsy(a) == IF a.given THEN a.s = <<>> ELSE TRUE

\* flushAll(), or del(keys().filter(k => k.startsWith(prefix)))
MemClear(st, prefix) ==
    IF Falsy(prefix) THEN EmptyObject
    ELSE Without(st, {k \in DOMAIN st : StartsWith(k, prefix.s)})

\* --- RedisCacheProvider --------------------------------------------------

\* raw = await this.client.get(key); raw === null ? null : JSON.parse(raw)
RedisGet(st, k) == IF k \in DOMAIN st THEN JsonParse(st[k].value) ELSE JsNull

\* A variant of RedisSet to compare against: an overwrite keeps the old expiry.
RedisSet_KeepsExpiry(st, k, v, ttl) ==
    WithEntry(st, k, [value |-> JsonStringify(v),
                      left  |-> IF k \in DOMAIN st THEN st[k].left ELSE ttl])

\* await this.client.setex(key, ttlSeconds, JSON.stringify(value))
RedisSet(st, k, v, ttl) == WithEntry(st, k, [value |-> JsonStringify(v), left |-> ttl])

\* (await this.client.del(key)) > 0
RedisDelete(st, k) == [store |-> Without(st, {k}), result |-> k \in DOMAIN st]

\* (await this.client.exists(key)) === 1
RedisHas(st, k) == k \in DOMAIN st

\* Redis glob matching, as SCAN ... MATCH applies it: `*` matches any run of
\* characters, `?` any one character, `\x` the character x, others themselves.
RECURSIVE GlobMatch(_, _)
GlobMatch(pat, str) ==
    IF pat = <<>> THEN str = <<>>
    ELSE IF pat[1] = "*"
         THEN \/ GlobMatch(Tail(pat), str)
              \/ str # <<>> /\ GlobMatch(pat, Tail(str))
    ELSE IF pat[1] = "?"
         THEN str # <<>> /\ GlobMatch(Tail(pat), Tail(str))
    ELSE IF pat[1] = "\\" /\ Len(pat) >= 2
         THEN str # <<>> /\ str[1] = pat[2] /\ GlobMatch(Tail(Tail(pat)), Tail(str))
    ELSE str # <<>> /\ str[1] = pat[1] /\ GlobMatch(Tail(pat), Tail(str))

\* The server's keyspace is walked slot by slot; a key's slot is fixed.
ScanSlots == 2
SlotOf(k) == Len(k) % ScanSlots

ScanCursorTable == << "0", "1", "2", "3" >>
ScanCursor(i) == ScanCursorTable[i + 1]
ScanSlot(c) == (CHOOSE i \in 1..Len(ScanCursorTable) : ScanCursorTable[i] = c) - 1

\* One turn of the loop: [nextCursor, keys] = scan(cursor, 'MATCH', `${prefix}*`,
\* 'COUNT', 100); if (keys.length > 0) del(...keys).
RedisScanStep(st, cursor, prefix) ==
    LET slot == ScanSlot(cursor)
        keys == {k \in DOMAIN st : SlotOf(k) = slot /\ GlobMatch(prefix \o <<"*">>, k)}
    IN  [ cursor |-> ScanCursor((slot + 1) % ScanSlots),
          store  |-> Without(st, keys) ]

\* do { ... } while (cursor !== '0'), run to its end.
RECURSIVE RedisScanLoop(_, _, _)
RedisScanLoop(st, cursor, prefix) ==
    LET r == RedisScanStep(st, cursor, prefix)
    IN  IF r.cursor # "0" THEN RedisScanLoop(r.store, r.cursor, prefix) ELSE r.store

\* flushdb(), or the SCAN loop from cursor '0'
RedisClear(st, prefix) ==
    IF Falsy(prefix) THEN EmptyObject ELSE RedisScanLoop(st, "0", prefix.s)

\* --- The provider createCacheProvider selected ---------------------------

Providers == {"memory", "redis"}

CacheGet(p, st, k) == IF p = "redis" THEN RedisGet(st, k) ELSE MemGet(st, k)

CacheSet(p, st, k, v, ttl) ==
    IF p = "redis" THEN RedisSet(st, k, v, ttl) ELSE MemSet(st, k, v, ttl)

CacheDelete(p, st, k) == IF p = "redis" THEN RedisDelete(st, k) ELSE MemDelete(st, k)

CacheHas(p, st, k) == IF p = "redis" THEN RedisHas(st, k) ELSE MemHas(st, k)

CacheClear(p, st, prefix) ==
    IF p = "redis" THEN RedisClear(st, prefix) ELSE MemClear(st, prefix)

\* One second passes: the backend expires the entries whose TTL has run out.
Expire(st) ==
    [k \in {x \in DOMAIN st : st[x].left > 1} |-> [st[k] EXCEPT !.left = @ - 1]]

(***************************************************************************)
(* Catalog transformer        transformers/square-catalog.transformer.ts   *)
(*                                                                         *)
(* Category names are strings written as sequences of characters (they are *)
(* compared by localeCompare); ids, urls and descriptions are atoms.       *)
(***************************************************************************)

\* The elements of a sequence.
Range(seq) == {seq[i] : i \in DOMAIN seq}

LowerCase == << "a", "b", "c", "d", "e", "f", "g", "h", "i", "j", "k", "l", "m",
                "n", "o", "p", "q", "r", "s", "t", "u", "v", "w", "x", "y", "z" >>
UpperCase == << "A", "B", "C", "D", "E", "F", "G", "H", "I", "J", "K", "L", "M",
                "N", "O", "P", "Q", "R", "S", "T", "U", "V", "W", "X", "Y", "Z" >>

\* Collation weights of a character: the letter (space sorts before letters),
\* then the case (lower case sorts before upper case).
PrimaryWeight(ch) ==
    IF \E i \in DOMAIN LowerCase : LowerCase[i] = ch
    THEN CHOOSE i \in DOMAIN LowerCase : LowerCase[i] = ch
    ELSE IF \E i \in DOMAIN UpperCase : UpperCase[i] = ch
    THEN CHOOSE i \in DOMAIN UpperCase : UpperCase[i] = ch
    ELSE 0

CaseWeight(ch) == IF \E i \in DOMAIN UpperCase : UpperCase[i] = ch THEN 1 ELSE 0

\* Lexicographic comparison of two sequences of numbers: -1, 0 or 1.
RECURSIVE LexCompare(_, _)
LexCompare(a, b) ==
    IF a = <<>> /\ b = <<>> THEN 0
    ELSE IF a = <<>> THEN -1
    ELSE IF b = <<>> THEN 1
    ELSE IF a[1] < b[1] THEN -1
    ELSE IF a[1] > b[1] THEN 1
    ELSE LexCompare(Tail(a), Tail(b))

\* a.localeCompare(b): by letters first, by case when the letters agree.
LocaleCompare(a, b) ==
    LET byLetter == LexCompare([i \in DOMAIN a |-> PrimaryWeight(a[i])],
                               [i \in DOMAIN b |-> PrimaryWeight(b[i])])
    IN  IF byLetter # 0 THEN byLetter
        ELSE LexCompare([i \in DOMAIN a |-> CaseWeight(a[i])],
                        [i \in DOMAIN b |-> CaseWeight(b[i])])

\* A variant of InsertSorted to compare against: an element is put before the
\* elements that compare equal to it (a sort that is not stable).
RECURSIVE InsertSorted_BeforeEquals(_, _, _)
InsertSorted_BeforeEquals(sorted, x, field) ==
    IF sorted = <<>> THEN <<x>>
    ELSE IF LocaleCompare(x[field], sorted[Len(sorted)][field]) > 0
         THEN Append(sorted, x)
         ELSE Append(InsertSorted_BeforeEquals(SubSeq(sorted, 1, Len(sorted) - 1), x, field),
                     sorted[Len(sorted)])

\* Array.prototype.sort((x, y) => x[field].localeCompare(y[field])): stable.
RECURSIVE InsertSorted(_, _, _)
InsertSorted(sorted, x, field) ==
    IF sorted = <<>> THEN <<x>>
    ELSE IF LocaleCompare(x[field], sorted[Len(sorted)][field]) >= 0
         THEN Append(sorted, x)
         ELSE Append(InsertSorted(SubSeq(sorted, 1, Len(sorted) - 1), x, field),
                     sorted[Len(sorted)])

RECURSIVE SortByName(_, _)
SortByName(seq, field) ==
    IF seq = <<>> THEN <<>>
    ELSE InsertSorted(SortByName(SubSeq(seq, 1, Len(seq) - 1), field), seq[Len(seq)], field)

Uncategorized   == << "U", "n", "c", "a", "t", "e", "g", "o", "r", "i", "z", "e", "d" >>
UnknownCategory == << "U", "n", "k", "n", "o", "w", "n", " ",
                      "C", "a", "t", "e", "g", "o", "r", "y" >>

\* obj.type === 'CATEGORY' with no category_type or category_type REGULAR_CATEGORY
IsRegularCategory(obj) ==
    /\ obj.type = "CATEGORY"
    /\ LET t == GetStr(obj.category_data, "category_type")
       IN  IF Truthy(t) THEN t = "REGULAR_CATEGORY" ELSE TRUE

\* The indexes of seq, in order, whose element satisfies the test.
FirstIndex(idx) == CHOOSE i \in idx : \A j \in idx : i <= j

\* A variant of findCategoryName to compare against: the last match wins.
findCategoryName_LastMatch(categoryId, relatedObjects) ==
    LET hits == {i \in DOMAIN relatedObjects :
                    /\ relatedObjects[i].id = categoryId
                    /\ IsRegularCategory(relatedObjects[i])}
    IN  IF hits = {} THEN JsNull
        ELSE relatedObjects[CHOOSE i \in hits : \A j \in hits : j <= i].category_data.name

\* findCategoryName: the name, or null
findCategoryName(categoryId, relatedObjects) ==
    LET hits == {i \in DOMAIN relatedObjects :
                    /\ relatedObjects[i].id = categoryId
                    /\ IsRegularCategory(relatedObjects[i])}
    IN  IF hits = {} THEN JsNull
        ELSE relatedObjects[FirstIndex(hits)].category_data.name

\* A variant of ItemAtLocation to compare against: only the explicit list of
\* location ids counts.
ItemAtLocation_ListOnly(item, locationId) ==
    IF HasField(item, "present_at_location_ids")
    THEN locationId \in Range(item.present_at_location_ids)
    ELSE FALSE

\* filterItemsByLocation: the test of its filter
\*   item.present_at_all_locations === true ||
\*   item.present_at_location_ids?.includes(locationId)
ItemAtLocation(item, locationId) ==
    IF HasField(item, "present_at_all_locations") /\ item.present_at_all_locations = TRUE
    THEN TRUE
    ELSE IF HasField(item, "present_at_location_ids")
         THEN locationId \in Range(item.present_at_location_ids)
         ELSE FALSE

\* filterItemsByLocation
filterItemsByLocation(items, locationId) ==
    SelectSeq(items, LAMBDA item : ItemAtLocation(item, locationId))

\* findImageUrl: the url, or null
findImageUrl(imageId, relatedObjects) ==
    LET hits == {i \in DOMAIN relatedObjects :
                    relatedObjects[i].type = "IMAGE" /\ relatedObjects[i].id = imageId}
    IN  IF hits = {} THEN Undefined      \* null, turned into undefined by `?? undefined`
        ELSE relatedObjects[FirstIndex(hits)].image_data.url

Digits == << "0", "1", "2", "3", "4", "5", "6", "7", "8", "9" >>

\* The decimal digits of a natural number.
RECURSIVE DigitsOf(_)
DigitsOf(n) == IF n < 10 THEN <<Digits[n + 1]>> ELSE Append(DigitsOf(n \div 10), Digits[(n % 10) + 1])

\* A variant of formatPrice to compare against: the cents are written without
\* a leading zero.
formatPrice_UnpaddedCents(cents) ==
    <<"$">> \o DigitsOf(cents \div 100) \o <<".">> \o DigitsOf(cents % 100)

\* formatPrice(cents): `$${(cents / 100).toFixed(2)}` for a whole number of cents
formatPrice(cents) ==
    LET abs == IF cents < 0 THEN -cents ELSE cents
    IN  <<"$">> \o (IF cents < 0 THEN <<"-">> ELSE <<>>)
              \o DigitsOf(abs \div 100) \o <<".">>
              \o <<Digits[((abs % 100) \div 10) + 1], Digits[(abs % 10) + 1]>>

\* amount / 100 as a decimal number: [cents |-> c] stands for c hundredths.
Dollars(cents) == [hundredths |-> cents]

\* v.item_variation_data.price_money?.amount ?? 0
VariationAmount(v) ==
    IF HasField(v.item_variation_data, "price_money")
    THEN v.item_variation_data.price_money.amount
    ELSE 0

\* transformCatalogItem
transformCatalogItem(item, relatedObjects) ==
    LET data == item.item_data
        categoryId == GetStr(data, "category_id")
        found == IF Truthy(categoryId) THEN findCategoryName(categoryId, relatedObjects)
                 ELSE JsNull
        categoryName == IF found = JsNull THEN Uncategorized ELSE found
        imageIds == IF HasField(data, "image_ids") THEN data.image_ids ELSE <<>>
        imageUrl == IF imageIds # <<>> /\ Truthy(imageIds[1])
                    THEN findImageUrl(imageIds[1], relatedObjects)
                    ELSE Undefined
        vars0 == IF HasField(data, "variations") THEN data.variations ELSE <<>>
    IN  [ id          |-> item.id,
          name        |-> data.name,
          description |-> GetStr(data, "description"),
          category    |-> categoryName,
          image_url   |-> imageUrl,
          variations  |-> [i \in DOMAIN vars0 |->
                             [ id             |-> vars0[i].id,
                               name           |-> vars0[i].item_variation_data.name,
                               priceDollars   |-> Dollars(VariationAmount(vars0[i])),
                               priceFormatted |-> formatPrice(VariationAmount(vars0[i])) ]] ]

\* The distinct values of f over seq, in order of first occurrence
\* (the key order of a Map filled while walking seq).
RECURSIVE FirstOccurrences(_)
FirstOccurrences(seq) ==
    IF seq = <<>> THEN <<>>
    ELSE LET before == FirstOccurrences(SubSeq(seq, 1, Len(seq) - 1))
         IN  IF seq[Len(seq)] \in Range(before) THEN before
             ELSE Append(before, seq[Len(seq)])

\* A variant of groupItemsByCategory to compare against: the map is keyed by
\* the item's category id instead of its resolved category name.
groupItemsByCategory_ById(items, relatedObjects) ==
    LET menuItems == [i \in DOMAIN items |-> transformCatalogItem(items[i], relatedObjects)]
        keyOf(i) == GetStr(items[i].item_data, "category_id")
        keys == FirstOccurrences([i \in DOMAIN items |-> keyOf(i)])
        groups == [g \in DOMAIN keys |->
                     LET members == {i \in DOMAIN items : keyOf(i) = keys[g]}
                     IN  [ category   |-> menuItems[FirstIndex(members)].category,
                           categoryId |-> IF Truthy(keys[g]) THEN keys[g] ELSE "uncategorized",
                           items      |-> SelectSeq(menuItems,
                                             LAMBDA m : \E i \in members : menuItems[i] = m) ]]
    IN  SortByName(groups, "category")

\* A variant of groupItemsByCategory to compare against: a group's categoryId
\* is the category_id of the first item that fell into the group.
groupItemsByCategory_IdOfFirstItem(items, relatedObjects) ==
    LET menuItems == [i \in DOMAIN items |-> transformCatalogItem(items[i], relatedObjects)]
        names == FirstOccurrences([i \in DOMAIN menuItems |-> menuItems[i].category])
        idOf(categoryName) ==
            LET members == {i \in DOMAIN items : menuItems[i].category = categoryName}
                found == GetStr(items[FirstIndex(members)].item_data, "category_id")
            IN  IF Truthy(found) THEN found ELSE "uncategorized"
        groups == [g \in DOMAIN names |->
                     [ category   |-> names[g],
                       categoryId |-> idOf(names[g]),
                       items      |-> SelectSeq(menuItems,
                                                LAMBDA m : m.category = names[g]) ]]
    IN  SortByName(groups, "category")

\* groupItemsByCategory
groupItemsByCategory(items, relatedObjects) ==
    LET menuItems == [i \in DOMAIN items |-> transformCatalogItem(items[i], relatedObjects)]
        names == FirstOccurrences([i \in DOMAIN menuItems |-> menuItems[i].category])
        idOf(categoryName) ==
            LET hits == {i \in DOMAIN relatedObjects :
                            /\ IsRegularCategory(relatedObjects[i])
                            /\ relatedObjects[i].category_data.name = categoryName}
                found == IF hits = {} THEN "" ELSE relatedObjects[FirstIndex(hits)].id
            IN  IF Truthy(found) THEN found ELSE "uncategorized"
        groups == [g \in DOMAIN names |->
                     [ category   |-> names[g],
                       categoryId |-> idOf(names[g]),
                       items      |-> SelectSeq(menuItems,
                                                LAMBDA m : m.category = names[g]) ]]
    IN  SortByName(groups, "category")

\* A variant of extractCategoriesFromRelatedObjects to compare against: one
\* entry per regular category object of related_objects, referenced or not.
extractCategoriesFromRelatedObjects_FromMetadata(relatedObjects, items) ==
    LET regular == SelectSeq(relatedObjects, IsRegularCategory)
        ids == FirstOccurrences([i \in DOMAIN regular |-> regular[i].id])
        nameOf(categoryId) ==
            regular[CHOOSE i \in DOMAIN regular :
                       /\ regular[i].id = categoryId
                       /\ \A j \in DOMAIN regular : regular[j].id = categoryId => j <= i
                   ].category_data.name
        categories == [c \in DOMAIN ids |->
                         [ id         |-> ids[c],
                           name       |-> nameOf(ids[c]),
                           item_count |-> Cardinality({i \in DOMAIN items :
                                              GetStr(items[i].item_data, "category_id")
                                                 = ids[c]}) ]]
    IN  SortByName(categories, "name")

\* extractCategoriesFromRelatedObjects
extractCategoriesFromRelatedObjects(relatedObjects, items) ==
    LET \* categoryMap: the last regular category with an id gives its name
        nameOf(categoryId) ==
            LET hits == {i \in DOMAIN relatedObjects :
                            /\ IsRegularCategory(relatedObjects[i])
                            /\ relatedObjects[i].id = categoryId}
            IN  IF hits = {} THEN <<>>
                ELSE relatedObjects[CHOOSE i \in hits : \A j \in hits : j <= i].category_data.name
        refs == SelectSeq([i \in DOMAIN items |-> GetStr(items[i].item_data, "category_id")],
                          LAMBDA c : Truthy(c))
        ids == FirstOccurrences(refs)
        categories == [c \in DOMAIN ids |->
                         [ id         |-> ids[c],
                           name       |-> IF nameOf(ids[c]) # <<>> THEN nameOf(ids[c])
                                          ELSE UnknownCategory,
                           item_count |-> Cardinality({i \in DOMAIN refs : refs[i] = ids[c]}) ]]
    IN  SortByName(categories, "name")

(***************************************************************************)
(* Location transformer      transformers/square-location.transformer.ts   *)
(***************************************************************************)

\* squareLocation.address?.field
AddressField(squareLocation, f) ==
    IF HasField(squareLocation, "address") THEN GetStr(squareLocation.address, f)
    ELSE Undefined

\* transformSquareLocation
transformSquareLocation(squareLocation) ==
    [ id       |-> squareLocation.id,
      name     |-> squareLocation.name,
      address  |-> [ address_line_1 |-> AddressField(squareLocation, "address_line_1"),
                     locality |-> AddressField(squareLocation, "locality"),
                     administrative_district_level_1 |->
                         AddressField(squareLocation, "administrative_district_level_1"),
                     postal_code |-> AddressField(squareLocation, "postal_code") ],
      timezone |-> IF HasField(squareLocation, "timezone") THEN squareLocation.timezone
                   ELSE "UTC",
      status   |-> squareLocation.status ]

(***************************************************************************)
(* Parts of the state a specification does not use stay at these values.   *)
(***************************************************************************)

NoCall  == [op |-> "none"]
NoClear == [pc |-> "idle"]

AggUnused ==
    /\ script = EmptyObject
    /\ agg = EmptyObject
    /\ aggCalls = <<>>

CacheUnused ==
    /\ provider = "memory"
    /\ store = EmptyObject
    /\ lastSet = EmptyObject
    /\ ret = NoCall
    /\ clr = NoClear

NoRequest == [pc |-> "idle"]

SvcUnused ==
    /\ upstream = 1
    /\ req = NoRequest
    /\ hook = NoRequest
    /\ redisUp = TRUE
    /\ req2 = NoRequest
    /\ xform = EmptyObject
    /\ errs = EmptyObject

(***************************************************************************)
(* SpecAgg: the aggregator against a scripted fetcher                      *)
(***************************************************************************)

MaxUpstreamPages == 11      \* pages the scripted upstream can hold
MaxPageSize      == 2       \* objects per page
MaxAnomalyPage   == 3       \* last page that may lack `objects` / carry cursor ''

CursorTable ==
    << "c1", "c2", "c3", "c4", "c5", "c6", "c7", "c8", "c9", "c10", "c11", "c12", "c13" >>

\* The cursor upstream hands out with page i: it names page i + 1.
CursorOf(i) == CursorTable[i]

\* The page a fetcher call asks for: the first one without a cursor.
PageAsked(cursor) ==
    IF cursor = Undefined THEN 1
    ELSE 1 + CHOOSE i \in 1..Len(CursorTable) : CursorTable[i] = cursor

Errors == {"E1", "E2"}

Scripts ==
    [ n             : 1..MaxUpstreamPages,   \* pages; all but the last carry a cursor
      k             : 0..MaxPageSize,        \* objects on every page
      failAt        : 0..MaxUpstreamPages,   \* page whose fetch throws (0: none)
      error         : Errors,                \* what that fetch throws
      noObjectsAt   : 0..MaxAnomalyPage,     \* page without an `objects` field (0: none)
      emptyCursorAt : 0..MaxAnomalyPage ]    \* page whose cursor is '' (0: none)

\* Object j of page i.
PageObjects(i, k) == [j \in 1..k |-> <<i, j>>]

\* What upstream answers for page i under script s.
ScriptPage(s, i) ==
    LET objs == IF i = s.noObjectsAt THEN EmptyObject
                ELSE ("objects" :> PageObjects(i, s.k))
        cur  == IF i = s.emptyCursorAt THEN ("cursor" :> "")
                ELSE IF i < s.n THEN ("cursor" :> CursorOf(i))
                ELSE EmptyObject
    IN  objs @@ cur

InitAgg ==
    /\ script \in Scripts
    /\ agg = AggStart
    /\ aggCalls = <<>>
    /\ CacheUnused
    /\ SvcUnused

\* result = await fetcher(cursor) resolves; the loop body runs.
AggFetchOk ==
    /\ AggRunning(agg)
    /\ PageAsked(agg.cursor) # script.failAt
    /\ aggCalls' = Append(aggCalls, agg.cursor)
    /\ agg' = AggOnResult(agg, ScriptPage(script, PageAsked(agg.cursor)))
    /\ UNCHANGED <<script, cacheVars, svcVars>>

\* await fetcher(cursor) rejects; the catch block runs.
AggFetchThrows ==
    /\ AggRunning(agg)
    /\ PageAsked(agg.cursor) = script.failAt
    /\ aggCalls' = Append(aggCalls, agg.cursor)
    /\ agg' = AggOnThrow(agg, script.error)
    /\ UNCHANGED <<script, cacheVars, svcVars>>

NextAgg == AggFetchOk \/ AggFetchThrows

\* Every fetcher call settles (the premise under which the aggregator is used).
SpecAgg == InitAgg /\ [][NextAgg]_vars /\ WF_vars(NextAgg)

----
\* What the pages 1..m of script s hold, page after page.
RECURSIVE ConcatPages(_, _)
ConcatPages(s, m) ==
    IF m = 0 THEN <<>>
    ELSE ConcatPages(s, m - 1)
            \o (IF m = s.noObjectsAt THEN <<>> ELSE PageObjects(m, s.k))

\* N pages of k objects each, every page but the last with a cursor, no failure.
RegularScript(s) ==
    /\ s.failAt = 0
    /\ s.noObjectsAt = 0
    /\ s.emptyCursorAt = 0

Min(a, b) == IF a < b THEN a ELSE b

CursorNeverEnds(s) ==
    /\ s.n > MAX_PAGES
    /\ s.emptyCursorAt = 0
    /\ s.failAt \notin 1..MAX_PAGES

AggCallsBounded ==
    /\ Len(aggCalls) <= MAX_PAGES
    /\ ~AggRunning(agg) => Len(aggCalls) >= 1
    /\ (~AggRunning(agg) /\ CursorNeverEnds(script)) =>
          /\ Len(aggCalls) = MAX_PAGES
          /\ agg.outcome = [kind |-> "return", value |-> ConcatPages(script, MAX_PAGES)]

ThrowingCalls == {c \in 1..Len(aggCalls) : PageAsked(aggCalls[c]) = script.failAt}

\* C9: when the fetcher throws on page i the aggregator ends by throwing that
\* same error, the failing call is its last fetcher call, and nothing
\* collected from the pages before it is returned.
C9_RethrowsAndStops ==
    ThrowingCalls # {} =>
        /\ agg.outcome = [kind |-> "throw", error |-> script.error]
        /\ ThrowingCalls = {Len(aggCalls)}
        /\ Len(aggCalls) = script.failAt

C9_Witness ==
    /\ script.failAt = 3
    /\ script.k = 2
    /\ script.noObjectsAt = 0
    /\ ThrowingCalls # {}
    /\ Len(agg.allObjects) = 4
    /\ agg.outcome.kind = "throw"

----
(***************************************************************************)
(* SpecCache: calls on one cache provider, one at a time, and time passing *)
(***************************************************************************)

MaxTtl == 2                 \* longest TTL, in seconds, a set is given

CacheTestKeys == { <<"a", "b">>, <<"a", "*">>, <<"b">> }

CacheTestPrefixes ==
    { NoArg, Arg(<<>>), Arg(<<"a">>), Arg(<<"a", "*">>), Arg(<<"b">>), Arg(<<"?">>) }

CacheTestValues ==
    { [id |-> "1", description |-> Undefined],
      [id |-> "2", description |-> "d"] }

NeverSet == [set |-> FALSE]

\* lastSet once the store went from st to st2 by a call that removes keys.
ForgetRemoved(ls, st, st2) ==
    [k \in DOMAIN ls |-> IF k \in DOMAIN st /\ k \notin DOMAIN st2 THEN NeverSet ELSE ls[k]]

InitCache ==
    /\ provider \in Providers
    /\ store = EmptyObject
    /\ lastSet = [k \in CacheTestKeys |-> NeverSet]
    /\ ret = NoCall
    /\ clr = NoClear
    /\ AggUnused
    /\ SvcUnused

\* await cache.set(k, v, ttl)
DoSet(k, v, ttl) ==
    /\ clr.pc # "scan"
    /\ store' = CacheSet(provider, store, k, v, ttl)
    /\ lastSet' = [lastSet EXCEPT ![k] = [set |-> TRUE, value |-> v, ttl |-> ttl, age |-> 0]]
    /\ ret' = [op |-> "set", key |-> k]
    /\ clr' = NoClear
    /\ UNCHANGED <<provider, aggVars, svcVars>>

\* await cache.get(k)
DoGet(k) ==
    /\ clr.pc # "scan"
    /\ ret' = [op |-> "get", key |-> k, result |-> CacheGet(provider, store, k)]
    /\ clr' = NoClear
    /\ UNCHANGED <<provider, store, lastSet, aggVars, svcVars>>

\* await cache.delete(k)
DoDelete(k) ==
    /\ clr.pc # "scan"
    /\ LET r == CacheDelete(provider, store, k)
       IN  /\ store' = r.store
           /\ ret' = [op |-> "delete", key |-> k, result |-> r.result]
           /\ lastSet' = ForgetRemoved(lastSet, store, r.store)
    /\ clr' = NoClear
    /\ UNCHANGED <<provider, aggVars, svcVars>>

\* await cache.has(k)
DoHas(k) ==
    /\ clr.pc # "scan"
    /\ ret' = [op |-> "has", key |-> k, result |-> CacheHas(provider, store, k)]
    /\ clr' = NoClear
    /\ UNCHANGED <<provider, store, lastSet, aggVars, svcVars>>

\* await cache.clear(prefix) on the memory provider, and on the Redis provider
\* without a prefix: one call on the backend.
DoClearAtOnce(prefix) ==
    /\ clr.pc # "scan"
    /\ IF provider = "memory" THEN TRUE ELSE Falsy(prefix)
    /\ store' = CacheClear(provider, store, prefix)
    /\ lastSet' = ForgetRemoved(lastSet, store, store')
    /\ ret' = [op |-> "clear"]
    /\ clr' = [pc |-> "done", prefix |-> prefix, before |-> store]
    /\ UNCHANGED <<provider, aggVars, svcVars>>

\* cache.clear(prefix) on the Redis provider: let cursor = '0'
DoClearRedisBegin(prefix) ==
    /\ clr.pc # "scan"
    /\ provider = "redis" /\ ~Falsy(prefix)
    /\ clr' = [pc |-> "scan", prefix |-> prefix, before |-> store, cursor |-> "0"]
    /\ ret' = NoCall
    /\ UNCHANGED <<provider, store, lastSet, aggVars, svcVars>>

\* One turn of the SCAN loop; the call returns when the cursor is '0' again.
DoClearRedisScan ==
    /\ clr.pc = "scan"
    /\ LET r == RedisScanStep(store, clr.cursor, clr.prefix.s)
       IN  /\ store' = r.store
           /\ lastSet' = ForgetRemoved(lastSet, store, r.store)
           /\ clr' = IF r.cursor # "0"
                     THEN [clr EXCEPT !.cursor = r.cursor]
                     ELSE [pc |-> "done", prefix |-> clr.prefix, before |-> clr.before]
           /\ ret' = IF r.cursor # "0" THEN NoCall ELSE [op |-> "clear"]
    /\ UNCHANGED <<provider, aggVars, svcVars>>

\* A second passes between two calls.
CacheTick ==
    /\ clr.pc # "scan"
    /\ \E k \in DOMAIN lastSet : lastSet[k].set /\ lastSet[k].age < lastSet[k].ttl
    /\ store' = Expire(store)
    /\ lastSet' = [k \in DOMAIN lastSet |->
                     IF lastSet[k].set /\ lastSet[k].age < lastSet[k].ttl
                     THEN [lastSet[k] EXCEPT !.age = @ + 1]
                     ELSE lastSet[k]]
    /\ ret' = NoCall
    /\ clr' = NoClear
    /\ UNCHANGED <<provider, aggVars, svcVars>>

NextCache ==
    \/ \E k \in CacheTestKeys, v \in CacheTestValues, ttl \in 1..MaxTtl : DoSet(k, v, ttl)
    \/ \E k \in CacheTestKeys : DoGet(k)
    \/ \E k \in CacheTestKeys : DoDelete(k)
    \/ \E k \in CacheTestKeys : DoHas(k)
    \/ \E prefix \in CacheTestPrefixes : DoClearAtOnce(prefix)
    \/ \E prefix \in CacheTestPrefixes : DoClearRedisBegin(prefix)
    \/ DoClearRedisScan
    \/ CacheTick

SpecCache == InitCache /\ [][NextCache]_vars

----
\* C5: a get issued before the TTL of the most recent set of its key has
\* elapsed returns a value deep-equal to the value set (the latest set decides
\* value and TTL); a get issued after it has elapsed, or for a key never set,
\* returns null.
C5_GetFollowsLatestSet ==
    ret.op = "get" =>
        LET g == lastSet[ret.key]
        IN  IF g.set /\ g.age < g.ttl
            THEN DeepEqual(ret.result, g.value)
            ELSE ret.result = JsNull

C5_Witness ==
    /\ provider = "redis"
    /\ ret.op = "get"
    /\ lastSet[ret.key].set
    /\ lastSet[ret.key].ttl = 2
    /\ lastSet[ret.key].age = 1
    /\ lastSet[ret.key].value.description = Undefined
    /\ ret.result = [id |-> "1"]

\* C6: clear(p) removes exactly the keys that start with p and leaves every
\* other key with its value untouched; clear() without a prefix removes every
\* key; on the memory provider and on the Redis provider alike.
C6_ClearRemovesExactlyPrefix ==
    clr.pc = "done" =>
        store = IF Falsy(clr.prefix) THEN EmptyObject
                ELSE Without(clr.before,
                             {k \in DOMAIN clr.before : StartsWith(k, clr.prefix.s)})

(***************************************************************************)
(* Spec: the locations, catalog and categories routes and the              *)
(* catalog-updated webhook, over a reachable cache provider and the        *)
(* commerce API.                                                           *)
(*                                                                         *)
(* A handler takes one step per await that waits for the network: an       *)
(* upstream call, a Redis command. MemoryCacheProvider's methods finish    *)
(* without waiting, so a handler on the memory provider runs through them  *)
(* inside the step that reaches them.                                      *)
(***************************************************************************)

\* parts.join(':')
RECURSIVE buildCacheKey(_)
buildCacheKey(parts) ==
    IF parts = <<>> THEN <<>>
    ELSE IF Len(parts) = 1 THEN parts[1]
    ELSE parts[1] \o <<":">> \o buildCacheKey(Tail(parts))

\* CacheKeys.locations(), CacheKeys.catalog(locationId), CacheKeys.categories(locationId)
CacheKeys_locations == buildCacheKey(<< <<"l", "o", "c", "a", "t", "i", "o", "n", "s">> >>)

CacheKeys_catalog(locationId) ==
    buildCacheKey(<< <<"c", "a", "t", "a", "l", "o", "g">>, locationId >>)

CacheKeys_categories(locationId) ==
    buildCacheKey(<< <<"c", "a", "t", "e", "g", "o", "r", "i", "e", "s">>, locationId >>)

\* A variant of ClearedPrefixes to compare against: only 'catalog:' is cleared.
ClearedPrefixes_CatalogOnly == << <<"c", "a", "t", "a", "l", "o", "g", ":">> >>

\* The prefixes the webhook clears: 'catalog:' and 'categories:'
ClearedPrefixes ==
    << <<"c", "a", "t", "a", "l", "o", "g", ":">>,
       <<"c", "a", "t", "e", "g", "o", "r", "i", "e", "s", ":">> >>

\* config.CACHE_TTL_SECONDS: a positive whole number of seconds
CACHE_TTL_SECONDS == 2

\* --- What the commerce API holds -----------------------------------------

\* The location id requests ask for.
LocationIds == { <<"L", "1">> }

Drinks == <<"D", "r", "i", "n", "k", "s">>

\* An item sold at L1 only, with a category and an image.
ItemLatte ==
    [ type |-> "ITEM", id |-> "I1",
      present_at_location_ids |-> << <<"L", "1">> >>,
      item_data |-> [ name |-> "Latte", category_id |-> "C1", image_ids |-> <<"IMG1">>,
                      variations |-> << [ type |-> "ITEM_VARIATION", id |-> "V1",
                                          item_variation_data |->
                                              [ name |-> "Small",
                                                price_money |-> [ amount |-> 450,
                                                                  currency |-> "USD" ] ] ] >> ] ]

\* An item sold everywhere, without category, with an unpriced variation; its
\* picture is the image object that also illustrates ItemLatte.
ItemWater ==
    [ type |-> "ITEM", id |-> "I2",
      present_at_all_locations |-> TRUE,
      item_data |-> [ name |-> "Water", description |-> "still",
                      image_ids |-> << "IMG1" >>,
                      variations |-> << [ type |-> "ITEM_VARIATION", id |-> "V2",
                                          item_variation_data |-> [ name |-> "Cup" ] ] >> ] ]

\* An item sold at L2 only, without category, image or variations.
ItemScone ==
    [ type |-> "ITEM", id |-> "I3",
      present_at_location_ids |-> << <<"L", "2">> >>,
      item_data |-> [ name |-> "Scone" ] ]

CategoryDrinks == [ type |-> "CATEGORY", id |-> "C1", category_data |-> [ name |-> Drinks ] ]

ImageLatte == [ type |-> "IMAGE", id |-> "IMG1", image_data |-> [ url |-> "https://img/1" ] ]

\* Catalog versions. Version 1 takes two pages, the category of the item on
\* page 1 arriving with page 2; version 2 is one page without related objects
\* and leaves L1 without items.
CatalogVersions == {1, 2}

\* The body of POST /catalog/search for a cursor (SquareSearchCatalogResponse).
SearchCatalogResponse(version, cursor) ==
    IF cursor = "p2"
    THEN [ objects |-> <<ItemWater>>, related_objects |-> <<CategoryDrinks>> ]
    ELSE IF version = 1
    THEN [ objects |-> <<ItemLatte>>, related_objects |-> <<ImageLatte>>, cursor |-> "p2" ]
    ELSE [ objects |-> <<ItemScone>> ]

\* The bodies GET /locations answers with (SquareListLocationsResponse): a
\* list of active and inactive locations, with or without address and
\* timezone, in one order or another, or a body without a list.
ListLocationsResponses ==
    { [ locations |-> << [ id |-> "L1", name |-> "Main", status |-> "ACTIVE",
                           address |-> [ address_line_1 |-> "1 Main St" ],
                           timezone |-> "America/New_York" ],
                         [ id |-> "L0", name |-> "Old", status |-> "INACTIVE" ],
                         [ id |-> "L2", name |-> "Kiosk", status |-> "ACTIVE" ] >> ],
      [ locations |-> << [ id |-> "L2", name |-> "Kiosk", status |-> "ACTIVE",
                           address |-> [ locality |-> "Springfield",
                                         postal_code |-> "12345" ] ],
                         [ id |-> "L1", name |-> "Main", status |-> "ACTIVE",
                           address |-> EmptyObject, timezone |-> "America/New_York" ],
                         [ id |-> "L0", name |-> "Old", status |-> "INACTIVE",
                           timezone |-> "America/Chicago" ] >> ],
      EmptyObject }

\* How an upstream call fails: no answer in time, no connection, or an
\* answer with a status outside 2xx.
UpstreamFailures == { "timeout", "network", "status401", "status404", "status429", "status500" }

\* --- Errors -----------------------------------------------------------------

\* AppError.upstream(message), AppError.notFound(message)
AppError_upstream(message) ==
    [ statusCode |-> 502, code |-> "UPSTREAM_ERROR", message |-> message ]

AppError_notFound(message) ==
    [ statusCode |-> 404, code |-> "NOT_FOUND", message |-> message ]

\* The Square client's response interceptor: the error a failed call rejects with.
SquareClientError(failure) ==
    IF failure = "status401" THEN AppError_upstream("Square authentication failed")
    ELSE IF failure = "status404" THEN AppError_notFound("Resource not found in Square")
    ELSE IF failure = "status429" THEN AppError_upstream("Square API rate limit exceeded")
    ELSE AppError_upstream("Square API request failed")

\* err instanceof AppError: an AppError carries a statusCode and a code, any
\* other Error just a name and a message.
IsAppError(err) == HasField(err, "statusCode")

\* err instanceof ZodError; err instanceof SyntaxError && 'body' in err
IsZodError(err) == GetStr(err, "name") = "ZodError" /\ HasField(err, "issues")

IsBodySyntaxError(err) == GetStr(err, "name") = "SyntaxError" /\ HasField(err, "body")

\* A variant of errorHandler to compare against: an unknown error's message
\* is sent to the client.
errorHandler_ExposesMessage(err) ==
    IF IsAppError(err)
    THEN [ status |-> err.statusCode,
           body   |-> [ error |-> [ code |-> err.code, message |-> err.message ] ] ]
    ELSE [ status |-> 500,
           body   |-> [ error |-> [ code |-> "INTERNAL_ERROR", message |-> err.message ] ] ]

\* errorHandler
errorHandler(err) ==
    IF IsAppError(err)
    THEN [ status |-> err.statusCode,
           body   |-> [ error |-> [ code |-> err.code, message |-> err.message ] ] ]
    ELSE IF IsZodError(err)
    THEN [ status |-> 400,
           body   |-> [ error |-> [ code |-> "VALIDATION_ERROR",
                                    message |-> "Request validation failed",
                                    details |-> [i \in DOMAIN err.issues |->
                                                   [ field   |-> err.issues[i].path,
                                                     message |-> err.issues[i].message ]] ] ] ]
    ELSE IF IsBodySyntaxError(err)
    THEN [ status |-> 400,
           body   |-> [ error |-> [ code |-> "INVALID_JSON",
                                    message |-> "Request body contains invalid JSON" ] ] ]
    ELSE [ status |-> 500,
           body   |-> [ error |-> [ code |-> "INTERNAL_ERROR",
                                    message |-> "Internal server error" ] ] ]

\* --- The query routes --------------------------------------------------------

Operations == {"locations", "catalog", "categories"}

\* A variant of CacheKeyOf to compare against: the categories route uses the
\* catalog route's key.
CacheKeyOf_SharedByRoutes(op, loc) ==
    IF op = "locations" THEN CacheKeys_locations ELSE CacheKeys_catalog(loc)

\* const cacheKey = CacheKeys.<operation>(location_id)
CacheKeyOf(op, loc) ==
    IF op = "locations" THEN CacheKeys_locations
    ELSE IF op = "catalog" THEN CacheKeys_catalog(loc)
    ELSE CacheKeys_categories(loc)

NoResponse == [ status |-> 0 ]

\* A handler that has just been entered. Besides the handler's locals the
\* record keeps a history of what the request did: whether its cache read
\* missed, its upstream calls, whether one of them failed, whether a cache
\* call was rejected, its cache writes, the bodies upstream answered with, and
\* whether an invalidation completed between its first page and its write.
NewRequest(op, loc) ==
    [ pc       |-> "get",
      op       |-> op,
      loc      |-> loc,
      cacheKey |-> CacheKeyOf(op, loc),
      agg      |-> AggStart,
      allRelatedObjects |-> <<>>,
      result   |-> EmptyObject,
      response |-> NoResponse,
      miss     |-> FALSE,
      calls    |-> 0,
      upstreamFailed |-> FALSE,
      cacheFailed    |-> FALSE,
      writes   |-> <<>>,
      received |-> <<>>,
      overtaken |-> FALSE ]

\* res.json(value)
Respond(r, value) ==
    [r EXCEPT !.pc = "done", !.response = [ status |-> 200, body |-> JsonValue(value) ]]

\* catch (error) { next(error) }, answered by errorHandler
Fail(r, err) == [r EXCEPT !.pc = "done", !.response = errorHandler(err)]

\* A variant of OnCacheRead to compare against: the cached value is ignored.
OnCacheRead_AlwaysMiss(r, cached) == [r EXCEPT !.pc = "fetch", !.miss = TRUE]

\* const cached = await cache.get(cacheKey); if (cached) return res.json(cached)
OnCacheRead(r, cached) ==
    IF cached # JsNull THEN Respond(r, cached)
    ELSE [r EXCEPT !.pc = "fetch", !.miss = TRUE]

\* A variant of StoreResult to compare against: responds without writing the cache.
StoreResult_RespondsUnwritten(r, result) == Respond(r, result)

\* const result = ...; await cache.set(cacheKey, result, config.CACHE_TTL_SECONDS)
\* is reached: the write is on its way.
StoreResult(r, result) == [r EXCEPT !.pc = "set", !.result = result]

\* A variant of OnLocations to compare against: every upstream location is
\* transformed, whatever its status.
OnLocations_KeepsInactive(r, data) ==
    IF ~HasField(data, "locations")
    THEN Fail(r, AppError_upstream("Square API returned no locations"))
    ELSE StoreResult(r, [ locations |->
                            [i \in DOMAIN data.locations |->
                                transformSquareLocation(data.locations[i])] ])

\* The locations route after squareClient.get('/locations') resolved with `data`.
OnLocations(r, data) ==
    IF ~HasField(data, "locations")
    THEN Fail(r, AppError_upstream("Square API returned no locations"))
    ELSE LET active == SelectSeq(data.locations, LAMBDA l : l.status = "ACTIVE")
         IN  StoreResult(r, [ locations |->
                                [i \in DOMAIN active |-> transformSquareLocation(active[i])] ])

\* A variant of FetcherRelated to compare against: only the related objects of
\* the page just answered are kept.
FetcherRelated_LatestPageOnly(all, data) ==
    IF HasField(data, "related_objects") THEN data.related_objects ELSE << >>

\* The fetcher handed to aggregateSquarePages, after squareClient.post resolved
\* with `data`: what it pushes onto allRelatedObjects and what it returns.
FetcherRelated(all, data) ==
    IF HasField(data, "related_objects") THEN all \o data.related_objects ELSE all

FetcherReturn(data) ==
    [f \in DOMAIN data \cap {"objects", "cursor"} |-> data[f]]

\* A variant of CatalogAfterPages to compare against: the empty result is returned uncached.
CatalogAfterPages_EmptyNotCached(r, catalogObjects) ==
    LET allItems == SelectSeq(catalogObjects, LAMBDA obj : obj.type = "ITEM")
        locationItems == filterItemsByLocation(allItems, r.loc)
    IN  IF Len(locationItems) = 0 THEN Respond(r, [ categories |-> <<>> ])
        ELSE StoreResult(r, [ categories |->
                                 groupItemsByCategory(locationItems, r.allRelatedObjects) ])

\* The catalog route after aggregateSquarePages returned catalogObjects.
CatalogAfterPages(r, catalogObjects) ==
    LET allItems == SelectSeq(catalogObjects, LAMBDA obj : obj.type = "ITEM")
        locationItems == filterItemsByLocation(allItems, r.loc)
    IN  IF Len(locationItems) = 0 THEN StoreResult(r, [ categories |-> <<>> ])
        ELSE StoreResult(r, [ categories |->
                                 groupItemsByCategory(locationItems, r.allRelatedObjects) ])

\* The categories route after aggregateSquarePages returned catalogObjects.
CategoriesAfterPages(r, catalogObjects) ==
    LET allItems == SelectSeq(catalogObjects, LAMBDA obj : obj.type = "ITEM")
        locationItems == filterItemsByLocation(allItems, r.loc)
    IN  IF Len(locationItems) = 0 THEN StoreResult(r, [ categories |-> <<>> ])
        ELSE StoreResult(r, [ categories |->
                 extractCategoriesFromRelatedObjects(r.allRelatedObjects, locationItems) ])

\* A variant of OnPage to compare against: the route goes on after the first page.
OnPage_StopsAfterFirstPage(r, data) ==
    LET related == FetcherRelated(r.allRelatedObjects, data)
        a  == AggOnResult(r.agg, FetcherReturn(data))
        r1 == [r EXCEPT !.agg = a, !.allRelatedObjects = related]
    IN  IF r.op = "catalog" THEN CatalogAfterPages(r1, a.allObjects)
        ELSE CategoriesAfterPages(r1, a.allObjects)

\* The catalog and categories routes after one squareClient.post of the
\* fetcher resolved with `data`: the aggregator's loop body runs and either
\* asks for the next page or returns to the route.
OnPage(r, data) ==
    LET related == FetcherRelated(r.allRelatedObjects, data)
        a  == AggOnResult(r.agg, FetcherReturn(data))
        r1 == [r EXCEPT !.agg = a, !.allRelatedObjects = related]
    IN  IF AggRunning(a) THEN r1
        ELSE IF r.op = "catalog" THEN CatalogAfterPages(r1, a.outcome.value)
        ELSE CategoriesAfterPages(r1, a.outcome.value)

\* A variant of OnUpstreamError to compare against: caches what the pages so far gave.
OnUpstreamError_CachesPartial(r, err) ==
    StoreResult([r EXCEPT !.agg = AggOnThrow(r.agg, err)], [ categories |-> r.agg.allObjects ])

\* An upstream call of the request rejected with err: the aggregator (if
\* any) rethrows, the route hands the error to next().
OnUpstreamError(r, err) ==
    Fail([r EXCEPT !.agg = IF r.op = "locations" THEN r.agg ELSE AggOnThrow(r.agg, err)], err)

\* await cache.set(...) resolved; res.json(result)
OnCacheWritten(r) == Respond(r, r.result)

\* --- The webhook route ------------------------------------------------------

\* event.type of the notifications that arrive: the catalog update, another
\* kind, and a body without type.
EventTypes == {"catalog.version.updated", "inventory.count.updated", Undefined}

\* A variant of HookReceive to compare against: every notification, whatever
\* its type, starts the two clears.
HookReceive_ClearsForAnyType(type) ==
    /\ hook.pc = "idle"
    /\ IF provider = "memory"
       THEN /\ store' = Without(store, {k \in DOMAIN store :
                            \E i \in 1 .. 2 :
                               StartsWith(k, << <<"c", "a", "t", "a", "l", "o", "g", ":">>,
                                                <<"c", "a", "t", "e", "g", "o", "r", "i", "e",
                                                  "s", ":">> >>[i])})
            /\ hook' = [ pc |-> "done", type |-> type,
                         removed |-> Cardinality(DOMAIN store) - Cardinality(DOMAIN store'),
                         response |-> [ status |-> 200,
                                        body |-> [ message |-> "Webhook processed successfully",
                                                   caches_cleared |->
                                                       <<"catalog:*", "categories:*">> ] ] ]
       ELSE /\ hook' = [ pc |-> "scan", type |-> type, clearing |-> 1, cursor |-> "0",
                         before |-> store, alone |-> req.pc \in {"idle", "done"},
                         removed |-> 0 ]
            /\ UNCHANGED store
    /\ UNCHANGED <<upstream, req, provider, lastSet, ret, clr, aggVars, redisUp, req2, xform, errs>>

\* A variant of HookProcessed to compare against: a notification that found
\* nothing to clear is answered with an error.
HookProcessed_FailsWhenNothingCleared(removed) ==
    [ pc |-> "done", type |-> "catalog.version.updated", removed |-> removed,
      response |-> IF removed = 0
                   THEN [ status |-> 500,
                          body |-> [ error |-> [ code |-> "INTERNAL_ERROR",
                                                 message |-> "Internal server error" ] ] ]
                   ELSE [ status |-> 200,
                          body |-> [ message |-> "Webhook processed successfully",
                                     caches_cleared |-> <<"catalog:*", "categories:*">> ] ] ]

\* res.status(200).json({ message: 'Webhook processed successfully', caches_cleared })
\* `removed` is history: how many keys the two clears deleted.
HookProcessed(removed) ==
    [ pc |-> "done", type |-> "catalog.version.updated", removed |-> removed,
      response |-> [ status |-> 200,
                     body |-> [ message |-> "Webhook processed successfully",
                                caches_cleared |-> <<"catalog:*", "categories:*">> ] ] ]

\* res.status(200).json({ message: 'Webhook received' })
HookAcknowledged(type) ==
    [ pc |-> "done", type |-> type,
      response |-> [ status |-> 200, body |-> [ message |-> "Webhook received" ] ] ]

\* await cache.clear('catalog:'); await cache.clear('categories:') on the
\* memory provider.
RECURSIVE MemClearAll(_, _)
MemClearAll(st, prefixes) ==
    IF prefixes = <<>> THEN st
    ELSE MemClearAll(MemClear(st, Arg(prefixes[1])), Tail(prefixes))

\* --- Specification -----------------------------------------------------------

Init ==
    /\ provider \in Providers
    /\ store = EmptyObject
    /\ upstream \in CatalogVersions
    /\ req = NoRequest
    /\ hook = NoRequest
    /\ redisUp = TRUE
    /\ req2 = NoRequest
    /\ xform = EmptyObject
    /\ errs = EmptyObject
    /\ lastSet = EmptyObject
    /\ ret = NoCall
    /\ clr = NoClear
    /\ AggUnused

\* What Spec leaves alone.
svcFixed == <<provider, lastSet, ret, clr, aggVars, redisUp, req2, xform, errs>>

\* History kept while the webhook's Redis SCAN loops run: the cache content
\* when the notification arrived (aged as time passes) and whether a query
\* request took a step meanwhile.
Disturbed(h) == IF h.pc = "scan" THEN [h EXCEPT !.alone = FALSE] ELSE h

\* The handler goes on from r1 up to its next wait. On the memory provider
\* cache.set finishes at once and the response follows in the same step.
Continue(r1) ==
    IF r1.pc = "set" /\ provider = "memory"
    THEN /\ store' = CacheSet(provider, store, r1.cacheKey, r1.result, CACHE_TTL_SECONDS)
         /\ req' = OnCacheWritten(
                [r1 EXCEPT !.writes = Append(@, [ key   |-> r1.cacheKey,
                                                  ttl   |-> CACHE_TTL_SECONDS,
                                                  value |-> JsonValue(r1.result) ])])
    ELSE /\ req' = r1
         /\ UNCHANGED store

\* A query request arrives; the handler calls cache.get. On the memory
\* provider the read finishes at once.
ReqStart(op, loc) ==
    /\ req.pc = "idle"
    /\ IF provider = "memory"
       THEN req' = OnCacheRead(NewRequest(op, loc),
                               CacheGet(provider, store, CacheKeyOf(op, loc)))
       ELSE req' = NewRequest(op, loc)
    /\ hook' = Disturbed(hook)
    /\ UNCHANGED <<store, upstream, svcFixed>>

\* Redis answers the GET.
ReqCacheGot ==
    /\ req.pc = "get"
    /\ redisUp
    /\ req' = OnCacheRead(req, CacheGet(provider, store, req.cacheKey))
    /\ hook' = Disturbed(hook)
    /\ UNCHANGED <<store, upstream, svcFixed>>

\* GET /locations answers with a 2xx body. A body without a list is what the
\* route reports as an upstream error.
ReqLocationsAnswered ==
    /\ req.pc = "fetch"
    /\ req.op = "locations"
    /\ \E data \in ListLocationsResponses :
          Continue(OnLocations([req EXCEPT !.calls = @ + 1,
                                           !.received = Append(@, data),
                                           !.upstreamFailed = ~HasField(data, "locations")],
                               data))
    /\ hook' = Disturbed(hook)
    /\ UNCHANGED <<upstream, svcFixed>>

\* POST /catalog/search answers with the page for the fetcher's cursor.
ReqPageAnswered ==
    /\ req.pc = "fetch"
    /\ req.op # "locations"
    /\ LET data == SearchCatalogResponse(upstream, req.agg.cursor)
       IN  Continue(OnPage([req EXCEPT !.calls = @ + 1, !.received = Append(@, data)], data))
    /\ hook' = Disturbed(hook)
    /\ UNCHANGED <<upstream, svcFixed>>

\* The upstream call in flight fails.
ReqUpstreamFails ==
    /\ req.pc = "fetch"
    /\ \E failure \in UpstreamFailures :
          Continue(OnUpstreamError([req EXCEPT !.calls = @ + 1, !.upstreamFailed = TRUE],
                                   SquareClientError(failure)))
    /\ hook' = Disturbed(hook)
    /\ UNCHANGED <<upstream, svcFixed>>

\* Redis executes the SETEX.
ReqCacheSet ==
    /\ req.pc = "set"
    /\ redisUp
    /\ store' = CacheSet(provider, store, req.cacheKey, req.result, CACHE_TTL_SECONDS)
    /\ req' = [req EXCEPT !.pc = "written",
                          !.writes = Append(@, [ key   |-> req.cacheKey,
                                                 ttl   |-> CACHE_TTL_SECONDS,
                                                 value |-> JsonValue(req.result) ])]
    /\ hook' = Disturbed(hook)
    /\ UNCHANGED <<upstream, svcFixed>>

\* The handler resumes after await cache.set and responds.
ReqRespond ==
    /\ req.pc = "written"
    /\ req' = OnCacheWritten(req)
    /\ hook' = Disturbed(hook)
    /\ UNCHANGED <<store, upstream, svcFixed>>

\* The response has gone out; the next request can come.
ReqClose ==
    /\ req.pc = "done"
    /\ req' = NoRequest
    /\ UNCHANGED <<store, upstream, hook, svcFixed>>

\* History of the request r when the webhook handler is left in state h: a
\* catalog or categories request that has pages in hand and has not written
\* yet is marked once the handler has answered a catalog.version.updated
\* notification as processed.
Overtaken(r, h) ==
    IF /\ h.pc = "done"
       /\ h.type = "catalog.version.updated"
       /\ h.response.status = 200
       /\ r.pc \in {"fetch", "set"}
       /\ r.op # "locations"
       /\ r.received # << >>
       /\ r.writes = << >>
    THEN [r EXCEPT !.overtaken = TRUE]
    ELSE r

\* A notification arrives. Another type is acknowledged; for
\* catalog.version.updated the two clears run, at once on the memory provider,
\* SCAN by SCAN on Redis.
HookReceive(type) ==
    /\ hook.pc = "idle"
    /\ IF type # "catalog.version.updated"
       THEN hook' = HookAcknowledged(type) /\ UNCHANGED store
       ELSE IF provider = "memory"
       THEN /\ store' = MemClearAll(store, ClearedPrefixes)
            /\ hook' = HookProcessed(Cardinality(DOMAIN store) - Cardinality(DOMAIN store'))
       ELSE /\ hook' = [ pc |-> "scan", type |-> type, clearing |-> 1, cursor |-> "0",
                         before |-> store, alone |-> req.pc \in {"idle", "done"},
                         removed |-> 0 ]
            /\ UNCHANGED store
    /\ req' = Overtaken(req, hook')
    /\ UNCHANGED <<upstream, svcFixed>>

\* One turn of RedisCacheProvider.clear's loop; after the last turn for
\* 'catalog:' the loop for 'categories:' starts, after its last turn the
\* handler responds.
HookScan ==
    /\ hook.pc = "scan"
    /\ redisUp
    /\ LET r == RedisScanStep(store, hook.cursor, ClearedPrefixes[hook.clearing])
           n == hook.removed + Cardinality(DOMAIN store) - Cardinality(DOMAIN r.store)
       IN  /\ store' = r.store
           /\ hook' = IF r.cursor # "0" THEN [hook EXCEPT !.cursor = r.cursor, !.removed = n]
                      ELSE IF hook.clearing < Len(ClearedPrefixes)
                      THEN [hook EXCEPT !.clearing = @ + 1, !.cursor = "0", !.removed = n]
                      ELSE HookProcessed(n)
    /\ req' = Overtaken(req, hook')
    /\ UNCHANGED <<upstream, svcFixed>>

\* The webhook's response has gone out.
HookClose ==
    /\ hook.pc = "done"
    /\ hook' = NoRequest
    /\ UNCHANGED <<store, upstream, req, svcFixed>>

\* One second passes.
Tick ==
    /\ store # EmptyObject
    /\ store' = Expire(store)
    /\ hook' = IF hook.pc = "scan" THEN [hook EXCEPT !.before = Expire(@)] ELSE hook
    /\ UNCHANGED <<upstream, req, svcFixed>>

\* The merchant changes the catalog.
UpstreamChanges ==
    /\ upstream' \in CatalogVersions \ {upstream}
    /\ UNCHANGED <<store, req, hook, svcFixed>>

Next ==
    \/ \E op \in Operations : \E loc \in LocationIds : ReqStart(op, loc)
    \/ ReqCacheGot
    \/ ReqLocationsAnswered
    \/ ReqPageAnswered
    \/ ReqUpstreamFails
    \/ ReqCacheSet
    \/ ReqRespond
    \/ ReqClose
    \/ \E type \in EventTypes : HookReceive(type)
    \/ HookScan
    \/ HookClose
    \/ Tick
    \/ UpstreamChanges

Spec == Init /\ [][Next]_vars

(***************************************************************************)
(* Claims about the routes and the webhook                                 *)
(***************************************************************************)

\* The keys and prefixes as the contract spells them.
KeyLocations     == <<"l", "o", "c", "a", "t", "i", "o", "n", "s">>
PrefixCatalog    == <<"c", "a", "t", "a", "l", "o", "g", ":">>
PrefixCategories == <<"c", "a", "t", "e", "g", "o", "r", "i", "e", "s", ":">>

CanonicalKey(op, loc) ==
    IF op = "locations" THEN KeyLocations
    ELSE IF op = "catalog" THEN PrefixCatalog \o loc
    ELSE PrefixCategories \o loc

\* The JSON value the cache holds under k.
HeldJson(st, k) == IF provider = "redis" THEN st[k].value.json ELSE JsonValue(st[k].value)

\* The step in which the request's cache.get is answered.
CacheIsRead ==
    IF provider = "memory" THEN req.pc = "idle" /\ req'.pc # "idle"
    ELSE req.pc = "get" /\ req'.pc # "get"

\* The step in which the request's cache.set takes effect.
CacheIsWritten ==
    /\ req.pc \in {"fetch", "set"}
    /\ Len(req'.writes) > Len(req.writes)

EmptyCatalog == [ categories |-> <<>> ]

\* C1: for each of the three queries, when the cache holds an unexpired value
\* under the query's canonical key at the time the request reads it, the
\* request answers 200 with exactly that value, makes no upstream call and no
\* cache write, and leaves the cache as it was.
C1_HitReturnsCached ==
    [][ (CacheIsRead /\ CanonicalKey(req'.op, req'.loc) \in DOMAIN store)
        => /\ req'.pc = "done"
           /\ req'.response = [ status |-> 200,
                                body   |-> HeldJson(store, CanonicalKey(req'.op, req'.loc)) ]
           /\ req'.calls = 0
           /\ req'.writes = <<>>
           /\ store' = store ]_vars

\* A catalog request answered from the cache with the two-group menu of
\* version 1 while upstream already serves version 2.
C1_Witness ==
    /\ req.pc = "done"
    /\ ~req.miss
    /\ req.op = "catalog"
    /\ upstream = 2
    /\ req.calls = 0
    /\ req.response.status = 200
    /\ Len(req.response.body.categories) = 2

\* A finished request that missed the cache and whose upstream calls all
\* succeeded made one cache write, under its canonical key, with the
\* configured TTL, of the value it answered with; no response exists before
\* that write.
C2_OneWrite ==
    /\ (req.pc = "done" /\ req.miss /\ ~req.upstreamFailed)
       => /\ req.response.status = 200
          /\ req.writes = << [ key   |-> CanonicalKey(req.op, req.loc),
                               ttl   |-> CACHE_TTL_SECONDS,
                               value |-> req.response.body ] >>
    /\ (req.pc \in {"get", "fetch", "set", "written"}) => req.response = NoResponse

\* Once the write has taken effect the cache holds the written value under the
\* key for the configured TTL, so a read of the key is a hit.
C2_WriteIsReadable ==
    CacheIsWritten
    => LET k == CanonicalKey(req'.op, req'.loc)
       IN  /\ k \in DOMAIN store'
           /\ store'[k].left = CACHE_TTL_SECONDS
           /\ HeldJson(store', k) = req'.writes[Len(req'.writes)].value
           /\ CacheGet(provider, store', k) # JsNull
           /\ Without(store', {k}) = Without(store, {k})

\* C2: on a cache miss where every upstream call succeeds the request makes
\* exactly one cache write, under its own canonical key, with the configured
\* TTL, of the value it returns, before it responds; after the write a read of
\* the key within the TTL is a hit on that value.
C2_MissWritesOnceBeforeResponding == [] C2_OneWrite /\ [][C2_WriteIsReadable]_vars

\* On Redis: the catalog menu of version 1 has been written, the response has
\* not been sent yet.
C2_Witness ==
    /\ provider = "redis"
    /\ req.pc = "written"
    /\ req.op = "catalog"
    /\ Len(req.writes) = 1
    /\ Len(req.result.categories) = 2
    /\ CanonicalKey("catalog", req.loc) \in DOMAIN store

\* A request one of whose upstream calls failed is over, answered with an
\* error body only, and has written nothing.
C3_Aborted ==
    (req.pc # "idle" /\ req.upstreamFailed)
    => /\ req.pc = "done"
       /\ req.writes = <<>>
       /\ req.response.status \notin {0, 200}
       /\ DOMAIN req.response.body = {"error"}

\* C3: if any upstream call of a request fails, on the first or a later page,
\* the request is aborted without a cache write: the failing step leaves the
\* cache as it was, and the answer is an error, never a partial or older value.
C3_FailureWritesNothing ==
    [] C3_Aborted
    /\ [][ (req.pc = "fetch" /\ req'.upstreamFailed) => store' = store ]_vars

\* A catalog request whose second page failed, while the cache holds the
\* categories of the same location.
C3_Witness ==
    /\ req.pc = "done"
    /\ req.op = "catalog"
    /\ req.upstreamFailed
    /\ req.calls = 2
    /\ Len(req.agg.allObjects) = 1
    /\ DOMAIN store = {CanonicalKey("categories", req.loc)}

\* The keys of st that start with neither cleared prefix.
OutsidePrefixes(st) ==
    {k \in DOMAIN st : ~StartsWith(k, PrefixCatalog) /\ ~StartsWith(k, PrefixCategories)}

\* The step in which the handling of a catalog.version.updated ends.
HookHandled ==
    /\ hook.pc # "done"
    /\ hook'.pc = "done"
    /\ hook'.type = "catalog.version.updated"

\* C4: when a catalog.version.updated notification has been handled with no
\* query request taking a step meanwhile, no key starting with `catalog:` or
\* `categories:` is left, and every other key, `locations` among them, is
\* present with the value it had when the notification arrived.
C4_InvalidationClearsBothPrefixes ==
    [][ (HookHandled /\ (IF hook.pc = "scan" THEN hook.alone ELSE TRUE))
        => LET before == IF hook.pc = "scan" THEN hook.before ELSE store
           IN  store' = [k \in OutsidePrefixes(before) |-> before[k]] ]_vars

\* A handled notification that removed a catalog and a categories key and
\* left the locations entry.
C4_Witness ==
    /\ hook.pc = "done"
    /\ hook.type = "catalog.version.updated"
    /\ hook.removed = 2
    /\ DOMAIN store = {KeyLocations}

\* The location-filtered item set of a catalog or categories request whose
\* pages have all arrived.
FilteredEmpty(r) ==
    filterItemsByLocation(SelectSeq(r.agg.allObjects, LAMBDA obj : obj.type = "ITEM"),
                          r.loc) = <<>>

\* A catalog or categories request that missed and found no item for its
\* location answered { categories: [] } and wrote it once with the configured TTL.
C10_EmptyIsWritten ==
    (/\ req.pc = "done"
     /\ req.op \in {"catalog", "categories"}
     /\ req.miss
     /\ ~req.upstreamFailed
     /\ FilteredEmpty(req))
    => /\ req.response = [ status |-> 200, body |-> EmptyCatalog ]
       /\ req.writes = << [ key   |-> CanonicalKey(req.op, req.loc),
                            ttl   |-> CACHE_TTL_SECONDS,
                            value |-> EmptyCatalog ] >>

\* A catalog or categories request that reads a cached { categories: [] }
\* answers with it and makes no upstream call.
C10_EmptyIsAHit ==
    (/\ CacheIsRead
     /\ req'.op \in {"catalog", "categories"}
     /\ CanonicalKey(req'.op, req'.loc) \in DOMAIN store
     /\ HeldJson(store, CanonicalKey(req'.op, req'.loc)) = EmptyCatalog)
    => /\ req'.pc = "done"
       /\ req'.response = [ status |-> 200, body |-> EmptyCatalog ]
       /\ req'.calls = 0

\* C10: when the location-filtered item set is empty, the catalog and the
\* categories query answer { categories: [] } and cache it under the query's
\* key with the configured TTL, like a non-empty result; a later call for the
\* location within the TTL is a hit that makes no upstream call.
C10_EmptyResultIsCached == [] C10_EmptyIsWritten /\ [][C10_EmptyIsAHit]_vars

\* A catalog request answered from the cache with the empty menu.
C10_Witness ==
    /\ req.pc = "done"
    /\ req.op = "catalog"
    /\ ~req.miss
    /\ req.calls = 0
    /\ req.response = [ status |-> 200, body |-> EmptyCatalog ]

(***************************************************************************)
(* Claims about error signalling                                           *)
(***************************************************************************)

\* C11: a request one of whose upstream calls failed (timeout, network error,
\* any status outside 2xx) is answered with the upstream-category error:
\* status 502, code UPSTREAM_ERROR, and a message of the application's own.
C11_FailureIsUpstreamError ==
    (req.pc = "done" /\ req.upstreamFailed)
    => /\ req.response.status = 502
       /\ req.response.body.error.code = "UPSTREAM_ERROR"

(***************************************************************************)
(* SpecOutage: the routes and the webhook on the Redis provider while the  *)
(* Redis server may stop answering. A command issued while the server is   *)
(* down is rejected by the client once its retries (maxRetriesPerRequest)  *)
(* are used up, and has no effect on the keyspace.                         *)
(***************************************************************************)

\* The errors the Redis client rejects a command with: plain Errors.
RedisErrors ==
    { [ name |-> "MaxRetriesPerRequestError",
        message |-> "Reached the max retries per request limit" ],
      [ name |-> "Error", message |-> "connect ECONNREFUSED" ] }

InitOutage ==
    /\ Init
    /\ provider = "redis"

\* The Redis server becomes unreachable / reachable again.
RedisGoesDown ==
    /\ redisUp
    /\ redisUp' = FALSE
    /\ UNCHANGED <<store, upstream, req, hook, req2, xform, errs, provider, lastSet, ret, clr, aggVars>>

RedisComesBack ==
    /\ ~redisUp
    /\ redisUp' = TRUE
    /\ UNCHANGED <<store, upstream, req, hook, req2, xform, errs, provider, lastSet, ret, clr, aggVars>>

\* A variant of OnCacheReadRejected to compare against: the rejected read is
\* taken for a miss and the handler goes upstream.
OnCacheReadRejected_TakenForMiss(r, err) ==
    [r EXCEPT !.pc = "fetch", !.miss = TRUE]

\* The handler when await cache.get(cacheKey) rejects with err: the await
\* throws inside the try block, so catch (error) { next(error) } answers.
OnCacheReadRejected(r, err) == Fail([r EXCEPT !.cacheFailed = TRUE], err)

\* await cache.get(cacheKey) rejects.
ReqCacheGetRejects ==
    /\ req.pc = "get"
    /\ ~redisUp
    /\ \E err \in RedisErrors : req' = OnCacheReadRejected(req, err)
    /\ hook' = Disturbed(hook)
    /\ UNCHANGED <<store, upstream, svcFixed>>

\* await cache.set(cacheKey, result, ttl) rejects: catch (error) { next(error) }
ReqCacheSetRejects ==
    /\ req.pc = "set"
    /\ ~redisUp
    /\ \E err \in RedisErrors : req' = Fail([req EXCEPT !.cacheFailed = TRUE], err)
    /\ hook' = Disturbed(hook)
    /\ UNCHANGED <<store, upstream, svcFixed>>

\* A SCAN or DEL of the webhook's cache.clear rejects: catch (error) { next(error) }
HookScanRejects ==
    /\ hook.pc = "scan"
    /\ ~redisUp
    /\ \E err \in RedisErrors :
          hook' = [ pc |-> "done", type |-> hook.type, removed |-> hook.removed,
                    response |-> errorHandler(err) ]
    /\ UNCHANGED <<store, upstream, req, svcFixed>>

NextOutage ==
    \/ Next
    \/ RedisGoesDown
    \/ RedisComesBack
    \/ ReqCacheGetRejects
    \/ ReqCacheSetRejects
    \/ HookScanRejects

SpecOutage == InitOutage /\ [][NextOutage]_vars

\* C12: a request one of whose cache calls (get or set) was rejected by the
\* networked backend is answered with the upstream-category error: status
\* 502, code UPSTREAM_ERROR.
C12_CacheFailureIsUpstreamError ==
    (req.pc = "done" /\ req.cacheFailed)
    => /\ req.response.status = 502
       /\ req.response.body.error.code = "UPSTREAM_ERROR"

(***************************************************************************)
(* SpecRace: two query requests handled at the same time, on either        *)
(* provider, while the merchant may change the catalog. The second         *)
(* request runs the same handlers as the first; its steps are the first's  *)
(* steps on req2.                                                          *)
(***************************************************************************)

InitRace == Init

\* What the second request's steps leave alone.
raceFixed == <<provider, lastSet, ret, clr, aggVars, redisUp, hook, upstream, req, xform, errs>>

\* The second handler goes on from r1 up to its next wait.
SecondContinue(r1) ==
    IF r1.pc = "set" /\ provider = "memory"
    THEN /\ store' = CacheSet(provider, store, r1.cacheKey, r1.result, CACHE_TTL_SECONDS)
         /\ req2' = OnCacheWritten(
                [r1 EXCEPT !.writes = Append(@, [ key   |-> r1.cacheKey,
                                                  ttl   |-> CACHE_TTL_SECONDS,
                                                  value |-> JsonValue(r1.result) ])])
    ELSE /\ req2' = r1
         /\ UNCHANGED store

SecondStart(op, loc) ==
    /\ req2.pc = "idle"
    /\ IF provider = "memory"
       THEN req2' = OnCacheRead(NewRequest(op, loc),
                                CacheGet(provider, store, CacheKeyOf(op, loc)))
       ELSE req2' = NewRequest(op, loc)
    /\ UNCHANGED <<store, raceFixed>>

SecondCacheGot ==
    /\ req2.pc = "get"
    /\ req2' = OnCacheRead(req2, CacheGet(provider, store, req2.cacheKey))
    /\ UNCHANGED <<store, raceFixed>>

SecondLocationsAnswered ==
    /\ req2.pc = "fetch"
    /\ req2.op = "locations"
    /\ \E data \in ListLocationsResponses :
          SecondContinue(OnLocations([req2 EXCEPT !.calls = @ + 1,
                                            !.received = Append(@, data),
                                            !.upstreamFailed = ~HasField(data, "locations")],
                                     data))
    /\ UNCHANGED raceFixed

SecondPageAnswered ==
    /\ req2.pc = "fetch"
    /\ req2.op # "locations"
    /\ LET data == SearchCatalogResponse(upstream, req2.agg.cursor)
       IN  SecondContinue(OnPage([req2 EXCEPT !.calls = @ + 1, !.received = Append(@, data)], data))
    /\ UNCHANGED raceFixed

SecondUpstreamFails ==
    /\ req2.pc = "fetch"
    /\ \E failure \in UpstreamFailures :
          SecondContinue(OnUpstreamError([req2 EXCEPT !.calls = @ + 1,
                                                !.upstreamFailed = TRUE],
                                         SquareClientError(failure)))
    /\ UNCHANGED raceFixed

SecondCacheSet ==
    /\ req2.pc = "set"
    /\ store' = CacheSet(provider, store, req2.cacheKey, req2.result, CACHE_TTL_SECONDS)
    /\ req2' = [req2 EXCEPT !.pc = "written",
                            !.writes = Append(@, [ key   |-> req2.cacheKey,
                                                   ttl   |-> CACHE_TTL_SECONDS,
                                                   value |-> JsonValue(req2.result) ])]
    /\ UNCHANGED raceFixed

SecondRespond ==
    /\ req2.pc = "written"
    /\ req2' = OnCacheWritten(req2)
    /\ UNCHANGED <<store, raceFixed>>

SecondClose ==
    /\ req2.pc = "done"
    /\ req2' = NoRequest
    /\ UNCHANGED <<store, raceFixed>>

NextRace ==
    \/ \E op \in Operations : \E loc \in LocationIds : ReqStart(op, loc)
    \/ ReqCacheGot
    \/ ReqLocationsAnswered
    \/ ReqPageAnswered
    \/ ReqUpstreamFails
    \/ ReqCacheSet
    \/ ReqRespond
    \/ ReqClose
    \/ \E op \in Operations : \E loc \in LocationIds : SecondStart(op, loc)
    \/ SecondCacheGot
    \/ SecondLocationsAnswered
    \/ SecondPageAnswered
    \/ SecondUpstreamFails
    \/ SecondCacheSet
    \/ SecondRespond
    \/ SecondClose
    \/ UpstreamChanges

SpecRace == InitRace /\ [][NextRace]_vars

\* The whole catalog of a version: the objects and related objects of all its
\* pages, in page order, following the cursors from the first page.
RECURSIVE CatalogFrom(_, _)
CatalogFrom(version, cursor) ==
    LET page == SearchCatalogResponse(version, cursor)
        objects == IF HasField(page, "objects") THEN page.objects ELSE <<>>
        related == IF HasField(page, "related_objects") THEN page.related_objects ELSE <<>>
        rest == IF HasField(page, "cursor") THEN CatalogFrom(version, page.cursor)
                ELSE [ objects |-> <<>>, related |-> <<>> ]
    IN  [ objects |-> objects \o rest.objects, related |-> related \o rest.related ]

\* The lists GET /locations can answer with.
LocationLists == { body.locations : body \in {b \in ListLocationsResponses : HasField(b, "locations")} }

\* The JSON values a query yields from whole upstream data: the menu or the
\* categories of one whole catalog version, the active locations of one list.
WholeResults(op, loc) ==
    IF op = "locations"
    THEN { JsonValue([ locations |->
               LET active == SelectSeq(list, LAMBDA l : l.status = "ACTIVE")
               IN  [i \in DOMAIN active |-> transformSquareLocation(active[i])] ])
           : list \in LocationLists }
    ELSE { LET whole == CatalogFrom(version, Undefined)
               items == filterItemsByLocation(
                           SelectSeq(whole.objects, LAMBDA obj : obj.type = "ITEM"), loc)
           IN  JsonValue([ categories |->
                   IF items = <<>> THEN <<>>
                   ELSE IF op = "catalog" THEN groupItemsByCategory(items, whole.related)
                   ELSE extractCategoriesFromRelatedObjects(whole.related, items) ])
           : version \in CatalogVersions }

\* The step in which the second request's cache.get is answered.
SecondReadsCache ==
    IF provider = "memory" THEN req2.pc = "idle" /\ req2'.pc # "idle"
    ELSE req2.pc = "get" /\ req2'.pc # "get"

\* A request that has missed and not yet written the key.
Fetching(r) == r.pc \in {"fetch", "set"}

\* A request that reads the cache while another has missed the same,
\* still uncached, key and not yet written it misses too and goes upstream.
C13_BothMiss ==
    /\ (/\ SecondReadsCache
        /\ Fetching(req)
        /\ req.cacheKey = req2'.cacheKey
        /\ req.cacheKey \notin DOMAIN store)
       => (req2'.pc = "fetch" /\ req2'.miss /\ req' = req)
    /\ (/\ CacheIsRead
        /\ Fetching(req2)
        /\ req2.cacheKey = req'.cacheKey
        /\ req2.cacheKey \notin DOMAIN store)
       => (req'.pc = "fetch" /\ req'.miss /\ req2' = req2)

\* A finished request that missed and met no upstream failure called
\* upstream, answered a whole result and wrote it once under its key.
Redundant(r) ==
    /\ r.calls >= 1
    /\ r.response.status = 200
    /\ r.response.body \in WholeResults(r.op, r.loc)
    /\ r.writes = << [ key   |-> CanonicalKey(r.op, r.loc),
                       ttl   |-> CACHE_TTL_SECONDS,
                       value |-> r.response.body ] >>

\* Both of two overlapping requests that missed the same key do the whole
\* work; every cache entry is some query's whole result.
C13_BothWriteWhole ==
    /\ (/\ req.pc = "done" /\ req2.pc = "done"
        /\ req.cacheKey = req2.cacheKey
        /\ req.miss /\ req2.miss
        /\ ~req.upstreamFailed /\ ~req2.upstreamFailed)
       => (Redundant(req) /\ Redundant(req2))
    /\ \A k \in DOMAIN store :
          \E op \in Operations : \E loc \in LocationIds :
             /\ k = CanonicalKey(op, loc)
             /\ HeldJson(store, k) \in WholeResults(op, loc)

\* C13: there is no coalescing or locking. When a request reads the cache
\* while another has missed the same uncached key and not yet written it, it
\* misses too; both then run the whole upstream fetch and transformation and
\* both write the key; in every interleaving a cache entry is one request's
\* whole result, never a mixture of two.
C13_NoCoalescing == [] C13_BothWriteWhole /\ [][C13_BothMiss]_vars

\* Two overlapping catalog requests that both missed, fetched different
\* catalog versions, and both wrote the key; the cache holds the second's result.
C13_Witness ==
    /\ req.pc = "done" /\ req2.pc = "done"
    /\ req.op = "catalog" /\ req2.op = "catalog"
    /\ req.miss /\ req2.miss
    /\ Len(req.writes) = 1 /\ Len(req2.writes) = 1
    /\ req.response.body # req2.response.body
    /\ HeldJson(store, req.cacheKey) = req2.response.body

(***************************************************************************)
(* SpecXform: the catalog transformer applied to bounded inputs            *)
(*                                                                         *)
(* The input is what the routes hand to the transformer: the ITEM objects  *)
(* of the aggregated pages, the aggregated related objects and a location  *)
(* id.  The steps are the calls of routes/catalog.route.ts:113,123 and     *)
(* routes/categories.route.ts:85,95, each computed by the operator that    *)
(* models the function.                                                    *)
(***************************************************************************)

MaxXfItems == 3

ItemIds == << "I1", "I2", "I3", "I4", "I5", "I6" >>

Food      == << "F", "o", "o", "d" >>
FoodLower == << "f", "o", "o", "d" >>

\* Location ids the filter is asked for; the second differs from the first
\* by case only.
XfLocations == { << "L", "1" >>, << "l", "1" >>, << "L", "2" >> }

\* SquareCatalogItem: where the item is present and which category it names.
XfItemShapes ==
    { [ present_at_all_locations |-> TRUE,
        item_data |-> [ name |-> "n", category_id |-> "C1" ] ],
      [ present_at_location_ids |-> << << "L", "1" >> >>,
        item_data |-> [ name |-> "n", category_id |-> "C2" ] ],
      [ present_at_location_ids |-> << << "l", "1" >> >>,
        item_data |-> [ name |-> "n", category_id |-> "C1" ] ],
      [ item_data |-> [ name |-> "n", category_id |-> "CX" ] ],
      [ present_at_location_ids |-> << << "L", "2" >>, << "L", "1" >> >>,
        item_data |-> [ name |-> "n" ] ],
      [ present_at_location_ids |-> << << "L", "1" >> >>,
        item_data |-> [ name |-> "n", category_id |-> "CX" ] ],
      [ present_at_all_locations |-> FALSE,
        present_at_location_ids |-> << << "L", "2" >> >>,
        item_data |-> [ name |-> "n", category_id |-> "C2" ] ] }

\* SquareCatalogCategory
XfCategory(id, name) == [ type |-> "CATEGORY", id |-> id, category_data |-> [ name |-> name ] ]

XfCategoryOfType(id, name, categoryType) ==
    [ type |-> "CATEGORY", id |-> id,
      category_data |-> [ name |-> name, category_type |-> categoryType ] ]

\* related_objects as aggregated over the pages: category names that differ,
\* collide, differ by case only, a menu-system category beside a regular one
\* with the same id, no category at all, categories that carry the names
\* the transformer uses as fallbacks, and a category that two pages delivered
\* under two names (it was renamed between the two fetches).
XfRelated ==
    { << XfCategory("C1", Drinks), XfCategoryOfType("C2", Food, "REGULAR_CATEGORY") >>,
      << XfCategory("C1", Drinks), XfCategory("C2", Drinks) >>,
      << XfCategory("C2", FoodLower), XfCategory("C1", Food) >>,
      << XfCategoryOfType("C1", Food, "MENU_CATEGORY"), XfCategory("C1", Drinks),
         ImageLatte, XfCategory("C3", Food) >>,
      << >>,
      << XfCategory("C1", Uncategorized), XfCategory("C2", UnknownCategory) >>,
      << XfCategory("C1", Drinks), XfCategory("C1", Food) >> }

fixedXform == <<aggVars, cacheVars, upstream, req, hook, redisUp, req2, errs>>

InitXform ==
    /\ AggUnused
    /\ CacheUnused
    /\ upstream = 1 /\ req = NoRequest /\ hook = NoRequest
    /\ redisUp = TRUE /\ req2 = NoRequest /\ errs = EmptyObject
    /\ \E related \in XfRelated, locationId \in XfLocations :
          xform = [ pc |-> "input", items |-> << >>, related |-> related,
                    locationId |-> locationId, filtered |-> << >>,
                    groups |-> << >>, categories |-> << >> ]

\* One more ITEM object in the aggregated list.
XfAddItem(shape) ==
    /\ xform.pc = "input"
    /\ Len(xform.items) < MaxXfItems
    /\ xform' = [xform EXCEPT !.items =
                    Append(@, shape @@ [ type |-> "ITEM", id |-> ItemIds[Len(@) + 1] ])]
    /\ UNCHANGED fixedXform

\* filterItemsByLocation(items, locationId)
XfFilter ==
    /\ xform.pc = "input"
    /\ xform' = [xform EXCEPT !.pc = "filtered",
                              !.filtered = filterItemsByLocation(xform.items, xform.locationId)]
    /\ UNCHANGED fixedXform

\* groupItemsByCategory(filteredItems, allRelatedObjects)
XfGroup ==
    /\ xform.pc = "filtered"
    /\ xform' = [xform EXCEPT !.pc = "grouped",
                              !.groups = groupItemsByCategory(xform.filtered, xform.related)]
    /\ UNCHANGED fixedXform

\* extractCategoriesFromRelatedObjects(allRelatedObjects, filteredItems)
XfExtract ==
    /\ xform.pc = "grouped"
    /\ xform' = [xform EXCEPT !.pc = "extracted",
                              !.categories =
                                  extractCategoriesFromRelatedObjects(xform.related,
                                                                      xform.filtered)]
    /\ UNCHANGED fixedXform

NextXform ==
    \/ \E shape \in XfItemShapes : XfAddItem(shape)
    \/ XfFilter
    \/ XfGroup
    \/ XfExtract

SpecXform == InitXform /\ [][NextXform]_vars

(***************************************************************************)
(* Claims about the transformer                                            *)
(***************************************************************************)

MarkedEverywhere(item) ==
    "present_at_all_locations" \in DOMAIN item /\ item.present_at_all_locations = TRUE

ListedAt(item, locationId) ==
    /\ "present_at_location_ids" \in DOMAIN item
    /\ \E i \in DOMAIN item.present_at_location_ids :
          item.present_at_location_ids[i] = locationId

\* The position of an item in the input list (ids are distinct).
PositionOf(item) == CHOOSE i \in DOMAIN xform.items : xform.items[i] = item

\* C14: filterItemsByLocation(items, L) returns exactly the items marked
\* present at all locations or whose list of location ids contains L (the very
\* same string, case included), in input order; an item with neither is left
\* out and an item marked present everywhere is returned for every L.
C14_FilterIsExact ==
    xform.pc # "input"
    => LET items == xform.items
           out   == xform.filtered
       IN  /\ Range(out) \subseteq Range(items)
           /\ \A i \in DOMAIN items :
                 items[i] \in Range(out)
                 <=> (MarkedEverywhere(items[i]) \/ ListedAt(items[i], xform.locationId))
           /\ \A a, b \in DOMAIN out : a < b => PositionOf(out[a]) < PositionOf(out[b])
           /\ \A i \in DOMAIN items :
                 MarkedEverywhere(items[i])
                 => \A locationId \in XfLocations :
                       items[i] \in Range(filterItemsByLocation(items, locationId))

\* The filter has kept an item marked present everywhere and a listed item, in
\* that order, and dropped an item listed under an id that differs by case only
\* and an item with neither mark nor list.
C14_Witness ==
    /\ xform.pc = "filtered"
    /\ xform.locationId = << "L", "1" >>
    /\ Len(xform.filtered) = 2
    /\ MarkedEverywhere(xform.filtered[1])
    /\ ~MarkedEverywhere(xform.filtered[2])
    /\ \E i \in DOMAIN xform.items :
          /\ ListedAt(xform.items[i], << "l", "1" >>)
          /\ xform.items[i] \notin Range(xform.filtered)

\* The category name the transformer resolves for an item of the filtered set.
ResolvedCategory(item) == transformCatalogItem(item, xform.related).category

\* The places (group, position) at which the groups hold the item with this id.
PlacesOf(id) ==
    { <<g, k>> \in (DOMAIN xform.groups) \X (DOMAIN xform.filtered) :
         /\ k \in DOMAIN xform.groups[g].items
         /\ xform.groups[g].items[k].id = id }

\* C15: groupItemsByCategory partitions its input by resolved category name:
\* one group per distinct resolved name, every input item in exactly one group,
\* whose name is the item's resolved category; items whose different category
\* ids resolve to the same name share a group.
C15_GroupsPartitionByName ==
    xform.pc \in {"grouped", "extracted"}
    => LET items  == xform.filtered
           groups == xform.groups
       IN  /\ \A g, h \in DOMAIN groups :
                 groups[g].category = groups[h].category => g = h
           /\ {groups[g].category : g \in DOMAIN groups}
                 = {ResolvedCategory(items[i]) : i \in DOMAIN items}
           /\ \A i \in DOMAIN items :
                 /\ Cardinality(PlacesOf(items[i].id)) = 1
                 /\ \A place \in PlacesOf(items[i].id) :
                       groups[place[1]].category = ResolvedCategory(items[i])
           /\ \A g \in DOMAIN groups :
                 /\ groups[g].items # << >>
                 /\ \A k \in DOMAIN groups[g].items :
                       \E i \in DOMAIN items : items[i].id = groups[g].items[k].id
           /\ \A i, j \in DOMAIN items :
                 ResolvedCategory(items[i]) = ResolvedCategory(items[j])
                 => \E g \in DOMAIN groups :
                       {items[i].id, items[j].id}
                          \subseteq {groups[g].items[k].id : k \in DOMAIN groups[g].items}

\* Two items with different category ids that resolve to the same name have
\* been put in one group, beside a second group.
C15_Witness ==
    /\ xform.pc = "grouped"
    /\ Len(xform.groups) = 2
    /\ \E i, j \in DOMAIN xform.filtered :
          /\ "category_id" \in DOMAIN xform.filtered[i].item_data
          /\ "category_id" \in DOMAIN xform.filtered[j].item_data
          /\ xform.filtered[i].item_data.category_id
                # xform.filtered[j].item_data.category_id
          /\ \E g \in DOMAIN xform.groups :
                {xform.filtered[i].id, xform.filtered[j].id}
                   \subseteq {xform.groups[g].items[k].id :
                                 k \in DOMAIN xform.groups[g].items}

\* The first position in the filtered list of an item that names this category id.
FirstReference(categoryId) ==
    FirstIndex({i \in DOMAIN xform.filtered :
                   /\ "category_id" \in DOMAIN xform.filtered[i].item_data
                   /\ xform.filtered[i].item_data.category_id = categoryId})

\* The first position in the filtered list of an item resolved to this name.
FirstOfName(name) ==
    FirstIndex({i \in DOMAIN xform.filtered : ResolvedCategory(xform.filtered[i]) = name})

\* The position in the filtered list of the item with this id.
FilteredPosition(id) == CHOOSE i \in DOMAIN xform.filtered : xform.filtered[i].id = id

\* C16: the groups of groupItemsByCategory and the categories of
\* extractCategoriesFromRelatedObjects are in ascending order of category
\* name; entries whose names compare equal keep their first-encounter order;
\* inside a group the items keep the order of the input list.
C16_SortedAndStable ==
    xform.pc = "extracted"
    => LET groups     == xform.groups
           categories == xform.categories
       IN  /\ \A g, h \in DOMAIN groups :
                 g < h => /\ LocaleCompare(groups[g].category, groups[h].category) <= 0
                          /\ LocaleCompare(groups[g].category, groups[h].category) = 0
                             => FirstOfName(groups[g].category)
                                   < FirstOfName(groups[h].category)
           /\ \A c, d \in DOMAIN categories :
                 c < d => /\ LocaleCompare(categories[c].name, categories[d].name) <= 0
                          /\ LocaleCompare(categories[c].name, categories[d].name) = 0
                             => FirstReference(categories[c].id)
                                   < FirstReference(categories[d].id)
           /\ \A g \in DOMAIN groups :
                 \A k, l \in DOMAIN groups[g].items :
                    k < l => FilteredPosition(groups[g].items[k].id)
                                < FilteredPosition(groups[g].items[l].id)

\* The categories hold two entries of the same name in first-encounter order
\* behind an entry that was encountered last, and a group holds two items.
C16_Witness ==
    /\ xform.pc = "extracted"
    /\ Len(xform.categories) = 3
    /\ xform.categories[2].name = xform.categories[3].name
    /\ xform.categories[2].id # xform.categories[3].id
    /\ FirstReference(xform.categories[1].id) > FirstReference(xform.categories[3].id)
    /\ \E g \in DOMAIN xform.groups : Len(xform.groups[g].items) = 2
    /\ \E g, h \in DOMAIN xform.groups :
          g < h /\ FirstOfName(xform.groups[g].category) > FirstOfName(xform.groups[h].category)

\* The category object is of the regular kind: no category_type, or REGULAR_CATEGORY.
RegularKind(obj) ==
    /\ obj.type = "CATEGORY"
    /\ \/ "category_type" \notin DOMAIN obj.category_data
       \/ obj.category_data.category_type = "REGULAR_CATEGORY"

\* The names of the regular-kind category objects with this id.
RegularNames(categoryId) ==
    { xform.related[i].category_data.name :
         i \in { j \in DOMAIN xform.related :
                    xform.related[j].id = categoryId /\ RegularKind(xform.related[j]) } }

\* The filtered items that name this category id.
ReferencesTo(categoryId) ==
    { i \in DOMAIN xform.filtered :
         /\ "category_id" \in DOMAIN xform.filtered[i].item_data
         /\ xform.filtered[i].item_data.category_id = categoryId }

WebhookClears(st) ==
    CacheClear(provider, CacheClear(provider, st, Arg(PrefixCatalog)), Arg(PrefixCategories))

\* Clearing twice leaves what clearing once leaves, and a cache without a
\* `catalog:` or `categories:` key is left as it is.
C18_ClearsAreIdempotent ==
    /\ WebhookClears(WebhookClears(store)) = WebhookClears(store)
    /\ OutsidePrefixes(store) = DOMAIN store => WebhookClears(store) = store

\* A handling of catalog.version.updated, with no query request stepping
\* meanwhile, is the two clears and ends with the success response; when no
\* key with either prefix existed at arrival it changes nothing.
C18_HandlingIsTheClears ==
    (HookHandled /\ (IF hook.pc = "scan" THEN hook.alone ELSE TRUE))
    => LET before == IF hook.pc = "scan" THEN hook.before ELSE store
       IN  /\ store' = WebhookClears(before)
           /\ hook'.response.status = 200
           /\ OutsidePrefixes(before) = DOMAIN before => store' = before

\* C18: invalidation is idempotent and unconditional: handling a
\* catalog.version.updated notification twice in a row leaves the cache as
\* handling it once does, and handling it when no `catalog:` or `categories:`
\* key exists succeeds without error and changes nothing.
C18_InvalidationIsIdempotent ==
    [] C18_ClearsAreIdempotent /\ [][C18_HandlingIsTheClears]_vars

\* A catalog.version.updated notification has been handled with success while
\* the cache held the locations entry and no key of either prefix.
C18_Witness ==
    /\ hook.pc = "done"
    /\ hook.type = "catalog.version.updated"
    /\ hook.removed = 0
    /\ hook.response.status = 200
    /\ DOMAIN store = {KeyLocations}

\* C19: a notification whose type is anything other than
\* catalog.version.updated is acknowledged successfully and leaves the whole
\* cache unchanged: no key is added, removed or modified.
C19_OtherTypesLeaveCache ==
    [][ (hook.pc = "idle" /\ hook'.pc # "idle" /\ hook'.type # "catalog.version.updated")
        => /\ hook'.pc = "done"
           /\ hook'.response = [ status |-> 200, body |-> [ message |-> "Webhook received" ] ]
           /\ store' = store ]_vars

\* A notification of another type has been acknowledged while the cache held
\* a catalog and a categories entry.
C19_Witness ==
    /\ hook.pc = "done"
    /\ hook.type = "inventory.count.updated"
    /\ hook.response.status = 200
    /\ \E k \in DOMAIN store : StartsWith(k, PrefixCatalog)
    /\ \E k \in DOMAIN store : StartsWith(k, PrefixCategories)

AddressParts == {"address_line_1", "locality", "administrative_district_level_1", "postal_code"}

\* The output shape of an upstream location as the response carries it: id,
\* name and status as given, the address parts upstream gave, the timezone
\* upstream gave or 'UTC'.
OutputLocation(l) ==
    [ id       |-> l.id,
      name     |-> l.name,
      address  |-> IF "address" \in DOMAIN l
                   THEN [f \in DOMAIN l.address \cap AddressParts |-> l.address[f]]
                   ELSE << >>,
      timezone |-> IF "timezone" \in DOMAIN l THEN l.timezone ELSE "UTC",
      status   |-> l.status ]

\* The positions of the ACTIVE locations in an upstream list, and the n-th of them.
ActivePositions(list) == {i \in DOMAIN list : list[i].status = "ACTIVE"}

NthActive(list, n) ==
    CHOOSE i \in ActivePositions(list) :
       Cardinality({j \in ActivePositions(list) : j <= i}) = n

\* The locations a list yields: its ACTIVE entries in upstream order, each in
\* the output shape.
ActiveOutput(list) ==
    [n \in 1 .. Cardinality(ActivePositions(list)) |-> OutputLocation(list[NthActive(list, n)])]

\* C20: on a cache miss the locations query issues a single upstream call and
\* returns exactly the upstream locations whose status is ACTIVE, in upstream
\* order, each mapped to the output shape with timezone 'UTC' when upstream
\* gives none; inactive locations never appear in the returned or the cached
\* value.
C20_LocationsAreTheActiveOnes ==
    /\ (req.pc = "done" /\ req.op = "locations" /\ req.miss) => req.calls = 1
    /\ (req.pc = "done" /\ req.op = "locations" /\ req.miss /\ ~req.upstreamFailed)
       => /\ Len(req.received) = 1
          /\ req.response = [ status |-> 200,
                              body |-> [ locations |->
                                           ActiveOutput(req.received[1].locations) ] ]
          /\ Len(req.writes) = 1
          /\ req.writes[1].value = req.response.body
    /\ (req.pc = "done" /\ req.op = "locations" /\ req.response.status = 200)
       => \A i \in DOMAIN req.response.body.locations :
             req.response.body.locations[i].status = "ACTIVE"
    /\ KeyLocations \in DOMAIN store
       => \A i \in DOMAIN HeldJson(store, KeyLocations).locations :
             HeldJson(store, KeyLocations).locations[i].status = "ACTIVE"

\* A locations request that missed has answered with the two active locations
\* of a three-entry upstream list, in upstream order, the one without upstream
\* timezone carrying 'UTC', and the cache holds them.
C20_Witness ==
    /\ req.pc = "done"
    /\ req.op = "locations"
    /\ req.miss
    /\ req.calls = 1
    /\ ~req.upstreamFailed
    /\ Len(req.received[1].locations) = 3
    /\ Len(req.response.body.locations) = 2
    /\ req.response.body.locations[1].id = "L2"
    /\ req.response.body.locations[1].timezone = "UTC"
    /\ req.response.body.locations[2].id = "L1"
    /\ KeyLocations \in DOMAIN store
    /\ Len(HeldJson(store, KeyLocations).locations) = 2

(***************************************************************************)
(* SpecPrice: transformCatalogItem applied to an item whose variations     *)
(* carry every amount of minor units up to a bound, or none                *)
(***************************************************************************)

MaxCents == 10050

\* SquareCatalogVariation, with price_money or without
XfVariation(id, amount) ==
    [ type |-> "ITEM_VARIATION", id |-> id,
      item_variation_data |-> [ name |-> "Regular",
                                price_money |-> [ amount |-> amount, currency |-> "USD" ] ] ]

XfUnpricedVariation(id) ==
    [ type |-> "ITEM_VARIATION", id |-> id, item_variation_data |-> [ name |-> "Regular" ] ]

InitPrice ==
    /\ AggUnused
    /\ CacheUnused
    /\ upstream = 1 /\ req = NoRequest /\ hook = NoRequest
    /\ redisUp = TRUE /\ req2 = NoRequest /\ errs = EmptyObject
    /\ \E amount \in 0 .. MaxCents :
       \E second \in {XfUnpricedVariation("V2"), XfVariation("V2", 995)} :
          xform = [ pc   |-> "item",
                    item |-> [ type |-> "ITEM", id |-> "I1",
                               item_data |-> [ name |-> "n",
                                               variations |-> << XfVariation("V1", amount),
                                                                 second >> ] ],
                    menuItem |-> EmptyObject ]

\* transformCatalogItem(item, relatedObjects)
XfTransform ==
    /\ xform.pc = "item"
    /\ xform' = [xform EXCEPT !.pc = "transformed",
                              !.menuItem = transformCatalogItem(xform.item, << >>)]
    /\ UNCHANGED fixedXform

NextPrice == XfTransform

SpecPrice == InitPrice /\ [][NextPrice]_vars

\* The number a sequence of decimal digits writes.
RECURSIVE DecimalValue(_)
DecimalValue(digits) ==
    IF digits = << >> THEN 0
    ELSE 10 * DecimalValue(SubSeq(digits, 1, Len(digits) - 1))
         + (CHOOSE d \in 0 .. 9 : Digits[d + 1] = digits[Len(digits)])

IsDigits(s) == \A i \in DOMAIN s : \E d \in DOMAIN Digits : Digits[d] = s[i]

\* text is '$', the whole part of c / 100 in decimal without leading zeros, a
\* dot, and c mod 100 in two digits.
IsPriceOf(text, c) ==
    LET n == Len(text)
    IN  /\ n >= 5
        /\ text[1] = "$"
        /\ text[n - 2] = "."
        /\ IsDigits(SubSeq(text, 2, n - 3))
        /\ IsDigits(SubSeq(text, n - 1, n))
        /\ (n > 5 => text[2] # "0")
        /\ DecimalValue(SubSeq(text, 2, n - 3)) = c \div 100
        /\ DecimalValue(SubSeq(text, n - 1, n)) = c % 100

\* The minor units of a variation: its money amount, 0 when it has none.
MinorUnits(v) ==
    IF "price_money" \in DOMAIN v.item_variation_data
    THEN v.item_variation_data.price_money.amount
    ELSE 0

\* C21: for every non-negative amount c of minor units formatPrice(c) is '$',
\* c div 100, a dot and c mod 100 in exactly two digits ('$0.00' for 0,
\* '$12.50' for 1250, '$100.50' for 10050); a variation's decimal price is
\* c / 100 and its formatted price formatPrice(c) for the same c, and a
\* variation without a money amount counts as c = 0.
C21_PricesDeriveFromMinorUnits ==
    /\ xform.pc = "transformed"
       => LET given == xform.item.item_data.variations
              out   == xform.menuItem.variations
          IN  /\ Len(out) = Len(given)
              /\ \A i \in DOMAIN given :
                    /\ out[i].priceDollars.hundredths = MinorUnits(given[i])
                    /\ IsPriceOf(out[i].priceFormatted, MinorUnits(given[i]))
                    /\ out[i].priceFormatted = formatPrice(MinorUnits(given[i]))
    /\ formatPrice(0) = << "$", "0", ".", "0", "0" >>
    /\ formatPrice(1250) = << "$", "1", "2", ".", "5", "0" >>
    /\ formatPrice(10050) = << "$", "1", "0", "0", ".", "5", "0" >>

\* An item has been transformed whose first variation costs 1205 minor units,
\* written '$12.05', and whose second has no money amount, written '$0.00'.
C21_Witness ==
    /\ xform.pc = "transformed"
    /\ xform.item.item_data.variations[1].item_variation_data.price_money.amount = 1205
    /\ xform.menuItem.variations[1].priceFormatted = << "$", "1", "2", ".", "0", "5" >>
    /\ xform.menuItem.variations[1].priceDollars.hundredths = 1205
    /\ "price_money" \notin DOMAIN xform.item.item_data.variations[2].item_variation_data
    /\ xform.menuItem.variations[2].priceFormatted = << "$", "0", ".", "0", "0" >>
    /\ xform.menuItem.variations[2].priceDollars.hundredths = 0

(***************************************************************************)
(* SpecError: two requests end in next(error); errorHandler answers each   *)
(***************************************************************************)

\* What an unexpected error says about the inside of the server.
InternalDetails ==
    { "connect ECONNREFUSED 10.0.0.5:6379",
      "database connection failed with credentials xyz",
      "Cannot read properties of undefined (reading 'type')" }

InternalStacks == { "at RedisCacheProvider.get (cache.service.ts:90)",
                    "at router.get (catalog.route.ts:76)" }

\* Errors that are neither AppError nor ZodError nor a body SyntaxError, with
\* or without a stack.
UnknownErrors ==
    { [ name |-> n, message |-> m ] : n \in {"Error", "TypeError", "SyntaxError"},
                                      m \in InternalDetails }
    \cup { [ name |-> n, message |-> m, stack |-> s ] :
              n \in {"Error", "TypeError", "SyntaxError"},
              m \in InternalDetails, s \in InternalStacks }

\* The errors a request hands to next(): unknown errors, the Redis client's
\* errors, the AppErrors of the Square client and the locations route, the
\* body parser's SyntaxError and a ZodError of the validation middleware.
ThrownErrors ==
    UnknownErrors
    \cup RedisErrors
    \cup { SquareClientError(failure) : failure \in UpstreamFailures }
    \cup { AppError_upstream("Square API returned no locations"),
           [ name |-> "SyntaxError", message |-> "Unexpected token } in JSON at position 1",
             body |-> "}" ],
           [ name |-> "ZodError", message |-> "Required",
             issues |-> << [ path |-> "location_id", message |-> "Required" ] >> ] }

InitError ==
    /\ AggUnused
    /\ CacheUnused
    /\ upstream = 1 /\ req = NoRequest /\ hook = NoRequest
    /\ redisUp = TRUE /\ req2 = NoRequest /\ xform = EmptyObject
    /\ \E first \in ThrownErrors, second \in ThrownErrors :
          errs = [ thrown |-> << first, second >>,
                   responses |-> << NoResponse, NoResponse >> ]

\* next(error) of the i-th request reaches errorHandler.
ErrHandle(i) ==
    /\ errs.responses[i] = NoResponse
    /\ errs' = [errs EXCEPT !.responses[i] = errorHandler(errs.thrown[i])]
    /\ UNCHANGED <<aggVars, cacheVars, upstream, req, hook, redisUp, req2, xform>>

NextError == \E i \in 1 .. 2 : ErrHandle(i)

SpecError == InitError /\ [][NextError]_vars

\* The error is of none of the kinds errorHandler knows.
UnknownError(err) ==
    /\ "statusCode" \notin DOMAIN err
    /\ ~(err.name = "ZodError" /\ "issues" \in DOMAIN err)
    /\ ~(err.name = "SyntaxError" /\ "body" \in DOMAIN err)

\* Two errors that are alike except for their message or stack.
DifferOnlyInDetail(a, b) ==
    \A f \in (DOMAIN a \cup DOMAIN b) \ {"message", "stack"} :
       f \in DOMAIN a /\ f \in DOMAIN b /\ a[f] = b[f]

GenericFailure ==
    [ status |-> 500,
      body   |-> [ error |-> [ code |-> "INTERNAL_ERROR",
                               message |-> "Internal server error" ] ] ]

BothHandled == errs.responses[1] # NoResponse /\ errs.responses[2] # NoResponse

\* C22: an error propagated out of a request yields one failure response in
\* which no internal detail is written: two unknown (non-AppError) errors that
\* differ only in message or stack get the identical response, status 500,
\* code INTERNAL_ERROR, message 'Internal server error'.
C22_UnknownErrorsAreIndistinguishable ==
    /\ BothHandled
       => /\ (/\ UnknownError(errs.thrown[1])
              /\ UnknownError(errs.thrown[2])
              /\ DifferOnlyInDetail(errs.thrown[1], errs.thrown[2]))
             => /\ errs.responses[1] = errs.responses[2]
                /\ errs.responses[1] = GenericFailure
    /\ \A i \in 1 .. 2 :
          errs.responses[i] # NoResponse
          => /\ DOMAIN errs.responses[i] = {"status", "body"}
             /\ DOMAIN errs.responses[i].body = {"error"}
             /\ DOMAIN errs.responses[i].body.error \subseteq {"code", "message", "details"}
             /\ errs.responses[i].body.error.message \notin InternalDetails
             /\ UnknownError(errs.thrown[i]) => errs.responses[i] = GenericFailure

\* Two unknown errors of the same kind with different messages, one of them
\* with a stack, have both been answered.
C22_Witness ==
    /\ BothHandled
    /\ UnknownError(errs.thrown[1])
    /\ UnknownError(errs.thrown[2])
    /\ DifferOnlyInDetail(errs.thrown[1], errs.thrown[2])
    /\ errs.thrown[1].message # errs.thrown[2].message
    /\ "stack" \in DOMAIN errs.thrown[1]
    /\ "stack" \notin DOMAIN errs.thrown[2]
    /\ errs.responses[1] = errs.responses[2]

(***************************************************************************)
(* SpecKeys: requests for several location ids share one cache             *)
(*                                                                         *)
(* The routes of Spec, asked for three location ids of which two differ by *)
(* case only; upstream answers every call, no notification arrives and no  *)
(* entry expires, so that every value that was cached stays to be hit.     *)
(***************************************************************************)

KeyLocationIds == { << "L", "1" >>, << "l", "1" >>, << "L", "2" >> }

InitKeys == Init

NextKeys ==
    \/ \E op \in Operations : \E loc \in KeyLocationIds : ReqStart(op, loc)
    \/ ReqCacheGot
    \/ ReqLocationsAnswered
    \/ ReqPageAnswered
    \/ ReqCacheSet
    \/ ReqRespond
    \/ ReqClose

SpecKeys == InitKeys /\ [][NextKeys]_vars

\* Location ids as a client may send them: any non-empty string, a colon
\* included.
AnyLocationIds == KeyLocationIds \cup { << "1" >>, << "L", ":", "1" >>, << ":" >>,
                                        << "L" >>, << "L", "1", ":" >> }

\* What a key is for: the operation, and the location id unless the
\* operation is the locations query.
KeyPurpose(op, loc) == IF op = "locations" THEN << op >> ELSE << op, loc >>

\* The mapping from (operation, location id) to cache key is injective, and
\* spells the keys `locations`, `catalog:<id>`, `categories:<id>`.
C23_KeysAreInjective ==
    \A op1 \in Operations, op2 \in Operations :
       \A loc1 \in AnyLocationIds, loc2 \in AnyLocationIds :
          /\ CacheKeyOf(op1, loc1) = CanonicalKey(op1, loc1)
          /\ CacheKeyOf(op1, loc1) = CacheKeyOf(op2, loc2)
             => KeyPurpose(op1, loc1) = KeyPurpose(op2, loc2)

\* The value the query (op, loc) computes from upstream's catalog version or
\* from one of upstream's location lists.
ResultsNow(op, loc) ==
    IF op = "locations" THEN WholeResults(op, loc)
    ELSE { LET whole == CatalogFrom(upstream, Undefined)
               items == filterItemsByLocation(
                           SelectSeq(whole.objects, LAMBDA obj : obj.type = "ITEM"), loc)
           IN  JsonValue([ categories |->
                   IF items = <<>> THEN <<>>
                   ELSE IF op = "catalog" THEN groupItemsByCategory(items, whole.related)
                   ELSE extractCategoriesFromRelatedObjects(whole.related, items) ]) }

\* Every cache entry lies under the key of one (operation, location id) and
\* holds a value that query computes; a request that is under way uses the
\* key of its own operation and location id.
C23_EntriesBelongToTheirKey ==
    /\ \A k \in DOMAIN store :
          \E op \in Operations : \E loc \in KeyLocationIds :
             /\ k = CanonicalKey(op, loc)
             /\ HeldJson(store, k) \in ResultsNow(op, loc)
    /\ req.pc # "idle" => req.cacheKey = CanonicalKey(req.op, req.loc)

\* A step of a request changes the cache under the request's own key only,
\* and a request answered from the cache is answered with the value under
\* its own key, which is a value its own query computes.
C23_RequestsTouchOnlyTheirKey ==
    /\ store' # store
       => /\ req'.pc # "idle"
          /\ \A k \in (DOMAIN store \cup DOMAIN store') \ {CanonicalKey(req'.op, req'.loc)} :
                k \in DOMAIN store /\ k \in DOMAIN store' /\ store'[k] = store[k]
    /\ (req.pc # "done" /\ req'.pc = "done" /\ ~req'.miss)
       => /\ req'.response.body = HeldJson(store, CanonicalKey(req'.op, req'.loc))
          /\ req'.response.body \in ResultsNow(req'.op, req'.loc)

AnswerTo(i) == ScriptPage(script, PageAsked(aggCalls[i]))

\* The cursor of an answer is absent or empty.
EndsPaging(answer) ==
    IF "cursor" \in DOMAIN answer THEN answer.cursor = "" ELSE TRUE

\* The first call got no cursor, every later call the cursor of the answer
\* before it, and no call followed an answer whose cursor is absent or empty.
C24_CursorsAreChained ==
    /\ aggCalls # << >> => aggCalls[1] = Undefined
    /\ \A i \in DOMAIN aggCalls :
          i > 1 => /\ ~EndsPaging(AnswerTo(i - 1))
                   /\ aggCalls[i] = AnswerTo(i - 1).cursor
    /\ (agg.outcome.kind = "return" /\ Len(aggCalls) < MAX_PAGES)
       => EndsPaging(AnswerTo(Len(aggCalls)))

\* An answer adds its objects, if it has any, behind those gathered so far; an
\* answer without an objects field adds nothing.
C24_AnswerIsAppended ==
    (Len(aggCalls') > Len(aggCalls) /\ agg'.outcome.kind # "throw")
    => LET answer == ScriptPage(script, PageAsked(agg.cursor))
       IN  agg'.allObjects = agg.allObjects
                                \o (IF "objects" \in DOMAIN answer THEN answer.objects
                                    ELSE << >>)

\* C24: the first fetchPage call receives no cursor, every later call exactly
\* the cursor returned by the response before it, no call is made after a
\* response whose cursor is absent or empty, and a response without an
\* objects field adds nothing to the accumulator.
C24_CallsFollowTheCursors ==
    [] C24_CursorsAreChained /\ [][C24_AnswerIsAppended]_vars

\* Three calls were made: the second answer had no objects field, the third an
\* empty cursor although upstream held more pages; the result is the objects
\* of pages one and three.
C24_Witness ==
    /\ agg.outcome.kind = "return"
    /\ script.n > 3
    /\ script.k = 2
    /\ script.noObjectsAt = 2
    /\ script.emptyCursorAt = 3
    /\ aggCalls = << Undefined, CursorOf(1), CursorOf(2) >>
    /\ agg.outcome.value = << <<1, 1>>, <<1, 2>>, <<3, 1>>, <<3, 2>> >>


\* --- C25: the transformer sees the related objects of every page ------------

\* The `objects` of the answered pages, in page order (result.objects ?? []).
RECURSIVE ObjectsOfPages(_)
ObjectsOfPages(pages) ==
    IF pages = << >> THEN << >>
    ELSE (IF HasField(Head(pages), "objects") THEN Head(pages).objects ELSE << >>)
         \o ObjectsOfPages(Tail(pages))

\* The `related_objects` of the answered pages, in page order.
RECURSIVE RelatedOfPages(_)
RelatedOfPages(pages) ==
    IF pages = << >> THEN << >>
    ELSE (IF HasField(Head(pages), "related_objects") THEN Head(pages).related_objects ELSE << >>)
         \o RelatedOfPages(Tail(pages))

\* What the route's transformer gives for the pages, run once on all of them.
ViewOfPages(op, loc, pages) ==
    LET related == RelatedOfPages(pages)
        items == filterItemsByLocation(
                    SelectSeq(ObjectsOfPages(pages), LAMBDA obj : obj.type = "ITEM"), loc)
    IN  [ categories |->
            IF items = << >> THEN << >>
            ELSE IF op = "catalog" THEN groupItemsByCategory(items, related)
            ELSE extractCategoriesFromRelatedObjects(related, items) ]

\* The request's paging has ended well: it missed, no call failed, and the
\* route has its result.
PagesTransformed ==
    /\ req.pc # "idle"
    /\ req.op \in {"catalog", "categories"}
    /\ req.miss /\ ~req.upstreamFailed /\ ~req.cacheFailed
    /\ req.pc \in {"set", "done"}

\* C25: in a catalog or categories request the related objects kept are those
\* of every answered page, in order; while pages are still being fetched there
\* is no result, no write and no answer; and once the last page (the one
\* without cursor) is in, the result, written and answered, is the transformer
\* applied to the items of all pages and the related objects of all pages.
C25_TransformsAfterLastPageOnAllRelated ==
    (req.pc # "idle" /\ req.op \in {"catalog", "categories"}) =>
        /\ req.allRelatedObjects = RelatedOfPages(req.received)
        /\ Len(req.received) = req.calls - (IF req.upstreamFailed THEN 1 ELSE 0)
        /\ req.pc = "fetch" => /\ req.result = EmptyObject
                               /\ req.writes = << >>
                               /\ req.response = NoResponse
                               /\ \A i \in DOMAIN req.received : ~EndsPaging(req.received[i])
        /\ PagesTransformed =>
              /\ req.received # << >>
              /\ \A i \in DOMAIN req.received :
                    EndsPaging(req.received[i]) <=> i = Len(req.received)
              /\ req.result = ViewOfPages(req.op, req.loc, req.received)
              /\ \A i \in DOMAIN req.writes :
                    /\ req.writes[i].key = req.cacheKey
                    /\ req.writes[i].value = JsonValue(req.result)
              /\ req.pc = "done" => Len(req.writes) = 1
              /\ req.pc = "done" =>
                    req.response = [ status |-> 200, body |-> JsonValue(req.result) ]

\* A catalog query answered from two pages: the item of page 1 is grouped
\* under the category that came with page 2, the item of page 2 shows the
\* image that came with page 1.
C25_Witness ==
    /\ PagesTransformed
    /\ req.op = "catalog" /\ req.pc = "done"
    /\ Len(req.received) = 2
    /\ ~(\E i \in DOMAIN req.received[1].related_objects :
            req.received[1].related_objects[i].type = "CATEGORY")
    /\ ~HasField(req.received[2], "cursor")
    /\ \E g \in DOMAIN req.response.body.categories :
          LET group == req.response.body.categories[g]
          IN  /\ group.category = "Drinks"
              /\ \E i \in DOMAIN group.items :
                    group.items[i].id = "I1" /\ group.items[i].image_url = "https://img/1"
    /\ \E g \in DOMAIN req.response.body.categories :
          LET group == req.response.body.categories[g]
          IN  \E i \in DOMAIN group.items :
                 /\ group.items[i].id = "I2"
                 /\ HasField(group.items[i], "image_url")
                 /\ group.items[i].image_url = "https://img/1"


\* --- C26: a rejected cache read is not a miss -------------------------------

\* The step in which the request's cache.get rejects.
CacheReadRejects == req.pc = "get" /\ ~redisUp /\ req' # req

\* The request whose cache read was rejected.
ReadRejected == req.pc # "idle" /\ req.cacheFailed /\ ~req.miss

\* The answer the error handler gives to the error the read rejected with.
RejectedReadAnswers == { errorHandler(err) : err \in RedisErrors }

\* When cache.get rejects the handler ends there with the error handler's
\* answer to that error, is not counted as a miss, and leaves the cache alone.
C26_RejectedReadEnds ==
    CacheReadRejects
    => /\ req'.pc = "done"
       /\ ~req'.miss
       /\ req'.cacheFailed
       /\ req'.response \in RejectedReadAnswers
       /\ req'.calls = 0 /\ req'.received = << >> /\ req'.writes = << >>
       /\ store' = store

\* A request whose read was rejected has made no upstream call and no cache
\* write, and is answered with an error.
C26_RejectedReadDidNothing ==
    ReadRejected
    => /\ req.pc = "done"
       /\ req.calls = 0 /\ req.received = << >> /\ req.writes = << >>
       /\ req.agg = AggStart
       /\ req.response.status >= 400
       /\ req.response \in RejectedReadAnswers

\* C26: when cache.get rejects at the start of a locations, catalog or
\* categories request, the request fails with that error, without any upstream
\* call and without any cache write; the rejection is never taken for a miss.
C26_FailedReadIsNotAMiss ==
    [] C26_RejectedReadDidNothing /\ [][C26_RejectedReadEnds]_vars

\* A catalog query whose cache read was rejected while the server was
\* unreachable has been answered with an error, without a call upstream.
C26_Witness ==
    /\ ReadRejected
    /\ req.op = "catalog"
    /\ req.pc = "done"
    /\ ~redisUp
    /\ req.response.status = 500
    /\ req.calls = 0


\* --- C27: how an item's category is resolved --------------------------------

\* The places of related_objects that answer a category reference: a CATEGORY
\* object with that id whose category_type is absent or REGULAR_CATEGORY.
AnswersTo(categoryId) ==
    { j \in DOMAIN xform.related :
         /\ xform.related[j].type = "CATEGORY"
         /\ xform.related[j].id = categoryId
         /\ RegularKind(xform.related[j]) }

\* The places of related_objects that hold an object with this id, of any kind.
Carrying(categoryId) == { j \in DOMAIN xform.related : xform.related[j].id = categoryId }

\* The category the item is to be shown under.
FirstAnswer(item) ==
    IF "category_id" \notin DOMAIN item.item_data THEN Uncategorized
    ELSE LET answers == AnswersTo(item.item_data.category_id)
         IN  IF answers = {} THEN Uncategorized
             ELSE xform.related[CHOOSE j \in answers : \A k \in answers : j <= k].category_data.name

\* C27: the category of every item in the grouped menu is the name of the
\* first CATEGORY object of related_objects that has the item's category_id
\* and is of the regular kind (category_type absent or REGULAR_CATEGORY); it is
\* 'Uncategorized' when there is no such object, also when only a menu
\* category carries the id, and when the item has no category_id.
C27_FirstRegularMatchNamesTheCategory ==
    xform.pc \in {"grouped", "extracted"}
    => \A i \in DOMAIN xform.filtered :
          /\ PlacesOf(xform.filtered[i].id) # {}
          /\ \A place \in PlacesOf(xform.filtered[i].id) :
                /\ xform.groups[place[1]].items[place[2]].category = FirstAnswer(xform.filtered[i])
                /\ xform.groups[place[1]].category = FirstAnswer(xform.filtered[i])

\* The menu holds an item whose category id is carried by a menu category
\* before the regular one that names it, an item without category_id under
\* 'Uncategorized', and no other item.
C27_Witness ==
    /\ xform.pc = "grouped"
    /\ Len(xform.filtered) = 2
    /\ \E i, j \in DOMAIN xform.filtered :
          /\ "category_id" \in DOMAIN xform.filtered[i].item_data
          /\ LET answers == AnswersTo(xform.filtered[i].item_data.category_id)
             IN  /\ answers # {}
                 /\ \E k \in Carrying(xform.filtered[i].item_data.category_id) :
                       /\ k \notin answers
                       /\ \A a \in answers : k < a
          /\ FirstAnswer(xform.filtered[i]) = Drinks
          /\ "category_id" \notin DOMAIN xform.filtered[j].item_data
    /\ Len(xform.groups) = 2
    /\ xform.groups[1].category = Drinks
    /\ xform.groups[2].category = Uncategorized


\* --- C28: the category id of a group ----------------------------------------

\* The places of related_objects that hold a regular-kind category of this name.
NamedLike(categoryName) ==
    { j \in DOMAIN xform.related :
         /\ RegularKind(xform.related[j])
         /\ xform.related[j].category_data.name = categoryName }

\* The category ids the items of the group refer to.
ReferencedBy(group) ==
    { xform.filtered[i].item_data.category_id :
         i \in { j \in DOMAIN xform.filtered :
                    /\ "category_id" \in DOMAIN xform.filtered[j].item_data
                    /\ \E k \in DOMAIN group.items : group.items[k].id = xform.filtered[j].id } }

\* C28: the categoryId of every group is the id of the first regular-kind
\* category object of related_objects whose name is the group's name, and is
\* 'uncategorized' exactly when related_objects hold no such object.
C28_GroupIdIsFoundByName ==
    xform.pc \in {"grouped", "extracted"}
    => \A g \in DOMAIN xform.groups :
          LET group == xform.groups[g]
              named == NamedLike(group.category)
          IN  /\ named # {}
                 => group.categoryId
                       = xform.related[CHOOSE j \in named : \A k \in named : j <= k].id
              /\ group.categoryId = "uncategorized" <=> named = {}

\* A group named 'Drinks' has the id of the first category object of that
\* name although its only item refers to the second one, and another group,
\* whose name no category object carries, has the sentinel.
C28_Witness ==
    /\ xform.pc = "grouped"
    /\ \E g \in DOMAIN xform.groups :
          /\ xform.groups[g].category = Drinks
          /\ xform.groups[g].categoryId = "C1"
          /\ ReferencedBy(xform.groups[g]) = {"C2"}
    /\ \E g \in DOMAIN xform.groups :
          /\ xform.groups[g].categoryId = "uncategorized"
          /\ NamedLike(xform.groups[g].category) = {}
          /\ ReferencedBy(xform.groups[g]) # {}


\* --- C30: the categories view against the menu view -------------------------

\* The groups of the menu view that carry this name.
GroupsNamed(categoryName) ==
    { g \in DOMAIN xform.groups : xform.groups[g].category = categoryName }

\* The ids of the filtered items that refer to this category id.
ItemsReferring(categoryId) == { xform.filtered[i].id : i \in ReferencesTo(categoryId) }

\* C30: for the same filtered items and the same related objects, every entry
\* of the categories view whose name is not 'Unknown Category' has a group of
\* that name in the menu view, and that group holds the items referring to the
\* entry's id, so at least item_count items.
C30_ViewsAgree ==
    xform.pc = "extracted"
    => \A c \in DOMAIN xform.categories :
          LET entry == xform.categories[c]
          IN  entry.name # UnknownCategory
              => /\ GroupsNamed(entry.name) # {}
                 /\ \A g \in GroupsNamed(entry.name) :
                       /\ Len(xform.groups[g].items) >= entry.item_count
                       /\ ItemsReferring(entry.id)
                             \subseteq { xform.groups[g].items[k].id :
                                            k \in DOMAIN xform.groups[g].items }


\* --- C29: a request overtaken by an invalidation ----------------------------

\* The request holds pages that were fetched before a catalog.version.updated
\* notification was handled to the end, and has written the cache since.
WroteAfterInvalidation ==
    /\ req.pc # "idle"
    /\ req.op \in {"catalog", "categories"}
    /\ req.overtaken
    /\ req.writes # << >>

\* C29: a result computed from upstream pages that were fetched before a
\* catalog.version.updated invalidation is never written to the cache after
\* that invalidation has completed.
C29_NoWriteAfterInvalidation == ~WroteAfterInvalidation

====
